---- MODULE Spec2Model ----
(***************************************************************************)
(* Translation QA engine: the rule library and analyzer driver of          *)
(* src/lib/qaEngine.ts, the format detector, and the settings handlers of  *)
(* src/App.tsx that feed the analyzer its configuration.                   *)
(*                                                                         *)
(* Text is modelled as a sequence of one-character strings, so that the    *)
(* regular expressions and string methods of the source are computed       *)
(* character by character.  Fixed message text is kept as whole pieces.    *)
(***************************************************************************)
EXTENDS Integers, Sequences, FiniteSets, TLC

(***************************************************************************)
(* Characters and the ECMAScript character classes the rules use.          *)
(***************************************************************************)
LowerSeq ==
  <<"a","b","c","d","e","f","g","h","i","j","k","l","m",
    "n","o","p","q","r","s","t","u","v","w","x","y","z">>

UpperSeq ==
  <<"A","B","C","D","E","F","G","H","I","J","K","L","M",
    "N","O","P","Q","R","S","T","U","V","W","X","Y","Z">>

Range(q) == { q[i] : i \in DOMAIN q }

Lower == Range(LowerSeq)

Upper == Range(UpperSeq)

Letter == Lower \cup Upper

Digit == {"0","1","2","3","4","5","6","7","8","9"}

\* \w
WordChar == Letter \cup Digit \cup {"_"}

\* \s (the members that occur in the analysed texts)
WhiteSpace == {" ", "\t", "\n", "\r", "\f"}

\* String.prototype.toLowerCase, one character
LowerChar(c) ==
  IF c \in Upper
  THEN LowerSeq[CHOOSE i \in DOMAIN UpperSeq : UpperSeq[i] = c]
  ELSE c

\* String.prototype.toLowerCase
ToLowerCase(s) == [i \in DOMAIN s |-> LowerChar(s[i])]

\* s.substring(a) / s.slice(a, b) on 1-based positions: characters a..b
Slice(s, a, b) == IF a > b THEN <<>> ELSE SubSeq(s, a, b)

RECURSIVE TrimStartPos(_, _)
TrimStartPos(s, i) ==
  IF i > Len(s) THEN i
  ELSE IF s[i] \in WhiteSpace THEN TrimStartPos(s, i + 1) ELSE i

RECURSIVE TrimEndPos(_, _)
TrimEndPos(s, j) ==
  IF j < 1 THEN j
  ELSE IF s[j] \in WhiteSpace THEN TrimEndPos(s, j - 1) ELSE j

\* String.prototype.trim
Trim(s) == Slice(s, TrimStartPos(s, 1), TrimEndPos(s, Len(s)))

RECURSIVE CountChar(_, _)
\* (s.match(new RegExp(escaped c, 'g')) || []).length for a one-character c
CountChar(s, c) ==
  IF s = <<>> THEN 0
  ELSE (IF Head(s) = c THEN 1 ELSE 0) + CountChar(Tail(s), c)

RECURSIVE IsPrefixAt(_, _, _)
\* does w occur in s starting at position i
IsPrefixAt(w, s, i) ==
  IF w = <<>> THEN TRUE
  ELSE IF i > Len(s) THEN FALSE
  ELSE IF s[i] # Head(w) THEN FALSE
  ELSE IsPrefixAt(Tail(w), s, i + 1)

\* String.prototype.includes
Includes(s, w) == \E i \in 1..(Len(s) + 1) : IsPrefixAt(w, s, i)

RECURSIVE Join(_, _)
\* Array.prototype.join with separator sep, on an array of texts
Join(arr, sep) ==
  IF arr = <<>> THEN <<>>
  ELSE IF Len(arr) = 1 THEN arr[1]
  ELSE arr[1] \o sep \o Join(Tail(arr), sep)

RECURSIVE Digits(_)
Digits(n) ==
  IF n < 10 THEN << <<"0","1","2","3","4","5","6","7","8","9">>[n + 1] >>
  ELSE Digits(n \div 10) \o Digits(n % 10)

\* template-literal formatting of a non-negative integer
NumToString(n) == Digits(n)

(***************************************************************************)
(* A backtracking matcher for the regular expressions of the source: each  *)
(* is a sequence of items, an item being a character class with a greedy   *)
(* quantifier {min,max} (max = -1: unbounded) or a zero-width assertion.   *)
(***************************************************************************)
Cls(S, lo, hi) == [k |-> "cls", set |-> S, neg |-> FALSE, min |-> lo, max |-> hi]

NotCls(S, lo, hi) == [k |-> "cls", set |-> S, neg |-> TRUE, min |-> lo, max |-> hi]

Lit(c) == Cls({c}, 1, 1)

Bol == [k |-> "bol", set |-> {}, neg |-> FALSE, min |-> 0, max |-> 0]

Eol == [k |-> "eol", set |-> {}, neg |-> FALSE, min |-> 0, max |-> 0]

WordBoundary == [k |-> "wb", set |-> {}, neg |-> FALSE, min |-> 0, max |-> 0]

InClass(it, c) == IF it.neg THEN c \notin it.set ELSE c \in it.set

RECURSIVE RunLen(_, _, _, _)
\* how many characters from position i on the item can consume at most
RunLen(it, s, i, n) ==
  IF i > Len(s) \/ n = it.max THEN n
  ELSE IF InClass(it, s[i]) THEN RunLen(it, s, i + 1, n + 1) ELSE n

IsWordAt(s, i) == i >= 1 /\ i <= Len(s) /\ s[i] \in WordChar

RECURSIVE MatchFrom(_, _, _, _)
RECURSIVE TryRep(_, _, _, _, _)
\* the position after the match of items k.. of re at position i; 0: no match
MatchFrom(re, k, s, i) ==
  IF k > Len(re) THEN i
  ELSE LET it == re[k] IN
    CASE it.k = "bol" -> IF i = 1 THEN MatchFrom(re, k + 1, s, i) ELSE 0
      [] it.k = "eol" -> IF i = Len(s) + 1 THEN MatchFrom(re, k + 1, s, i) ELSE 0
      [] it.k = "wb"  -> IF IsWordAt(s, i - 1) # IsWordAt(s, i)
                         THEN MatchFrom(re, k + 1, s, i) ELSE 0
      [] OTHER -> TryRep(re, k, s, i, RunLen(it, s, i, 0))

\* greedy: the longest repetition c first, giving characters back one by one
TryRep(re, k, s, i, c) ==
  IF c < re[k].min THEN 0
  ELSE LET r == MatchFrom(re, k + 1, s, i + c) IN
       IF r # 0 THEN r ELSE TryRep(re, k, s, i, c - 1)

RECURSIVE FirstMatch(_, _, _)
RECURSIVE MatchAt(_, _, _, _)
\* a match at position i that ends before e, or else the next one to the right
MatchAt(re, s, i, e) ==
  IF e # 0 THEN <<i, e>> ELSE FirstMatch(re, s, i + 1)

\* RegExp.prototype.exec from position i: <<start, end>> of the leftmost
\* match (end exclusive), or <<>>
FirstMatch(re, s, i) ==
  IF i > Len(s) + 1 THEN <<>> ELSE MatchAt(re, s, i, MatchFrom(re, 1, s, i))

\* RegExp.prototype.test (no g flag)
Test(re, s) == FirstMatch(re, s, 1) # <<>>

RECURSIVE MatchAllFrom(_, _, _)
RECURSIVE MatchAllAfter(_, _, _)
\* the match m and the matches after it; lastIndex moves past an empty match
MatchAllAfter(re, s, m) ==
  IF m = <<>> THEN <<>>
  ELSE << Slice(s, m[1], m[2] - 1) >>
       \o MatchAllFrom(re, s, IF m[2] > m[1] THEN m[2] ELSE m[2] + 1)

MatchAllFrom(re, s, i) == MatchAllAfter(re, s, FirstMatch(re, s, i))

\* s.match(/re/g) || []
MatchAll(re, s) == MatchAllFrom(re, s, 1)

RECURSIVE SplitFrom(_, _, _)
RECURSIVE SplitAt(_, _, _, _)
\* the piece from p up to the separator m, and the pieces after it
SplitAt(re, s, p, m) ==
  IF m = <<>> \/ m[1] > Len(s) THEN << Slice(s, p, Len(s)) >>
  ELSE << Slice(s, p, m[1] - 1) >> \o SplitFrom(re, s, m[2])

SplitFrom(re, s, p) == SplitAt(re, s, p, FirstMatch(re, s, p))

\* s.split(/re/) for a pattern that matches no empty string
Split(re, s) == SplitFrom(re, s, 1)

RECURSIVE ReplaceAllFrom(_, _, _, _)
RECURSIVE ReplaceAt(_, _, _, _, _)
\* the text from p up to the match m, rep in its place, and the rest replaced
ReplaceAt(re, s, rep, p, m) ==
  IF m = <<>> \/ m[1] > Len(s) THEN Slice(s, p, Len(s))
  ELSE Slice(s, p, m[1] - 1) \o rep \o ReplaceAllFrom(re, s, rep, m[2])

ReplaceAllFrom(re, s, rep, p) == ReplaceAt(re, s, rep, p, FirstMatch(re, s, p))

\* s.replace(/re/g, rep) for a pattern that matches no empty string
ReplaceAll(re, s, rep) == ReplaceAllFrom(re, s, rep, 1)

(***************************************************************************)
(* Issue types (types/translation.ts) and the default configuration.       *)
(***************************************************************************)
IssueTypes ==
  { "missing_translation", "empty_translation", "leading_trailing_spaces",
    "inconsistent_brackets", "inconsistent_placeholders",
    "inconsistent_punctuation", "inconsistent_case", "inconsistent_numbers",
    "inconsistent_urls", "inconsistent_emails", "too_long_translation",
    "potentially_incorrect_translation", "duplicate_translation",
    "invalid_html_tags", "invalid_xml_tags", "special_characters_mismatch",
    "formatting_issues", "untranslated_text", "target_same_as_source",
    "key_term_mismatch", "alphanumeric_mismatch", "inconsistent_source",
    "inconsistent_target" }

\* DEFAULT_CONFIG.rules
DefaultRules ==
  [ t \in IssueTypes |->
      t \notin {"inconsistent_case", "potentially_incorrect_translation"} ]

\* DEFAULT_CONFIG; maxLengthRatio is kept in tenths (15 is 1.5), an optional
\* field is a sequence of length 0 (absent) or 1 (present)
DEFAULT_CONFIG ==
  [ rules |-> DefaultRules, maxLengthRatio |-> <<15>>, glossary |-> <<>> ]

\* generateIssueId: the n-th identifier that Math.random yields in a process
\* whose random source started from the given seed
generateIssueId(seed, n) == <<"issue_", seed, n>>

\* Issue with the identifier repeated in the message
IssueNamingId(unit, rid, type, severity, message, suggestion) ==
  [ id |-> rid, unitId |-> unit.id, type |-> type, severity |-> severity,
    message |-> message \o <<" (">> \o rid \o <<")">>,
    source |-> unit.source, target |-> unit.target,
    key |-> unit.key, suggestion |-> suggestion, index |-> <<>> ]

\* the QAIssue literal every rule returns (index is stamped by checkUnit)
Issue(unit, rid, type, severity, message, suggestion) ==
  [ id |-> rid, unitId |-> unit.id, type |-> type, severity |-> severity,
    message |-> message, source |-> unit.source, target |-> unit.target,
    key |-> unit.key, suggestion |-> suggestion, index |-> <<>> ]

(***************************************************************************)
(* The rule library.  A rule returns <<>> (null) or <<issue>>.             *)
(***************************************************************************)
checkMissingTranslation(unit, rid) ==
  IF unit.target = <<>> \/ Trim(unit.target) = <<>>
  THEN << Issue(unit, rid, "missing_translation", "error",
                <<"Translation is missing">>, <<unit.source>>) >>
  ELSE <<>>

checkEmptyTranslation(unit, rid) ==
  IF unit.target # <<>> /\ Trim(unit.target) = <<>> /\ Len(unit.target) > 0
  THEN << Issue(unit, rid, "empty_translation", "error",
                <<"Translation contains only whitespace">>, <<unit.source>>) >>
  ELSE <<>>

checkLeadingTrailingSpaces(unit, rid) ==
  LET sourceHasLeading  == Test(<<Bol, Cls(WhiteSpace, 1, 1)>>, unit.source)
      sourceHasTrailing == Test(<<Cls(WhiteSpace, 1, 1), Eol>>, unit.source)
      targetHasLeading  == Test(<<Bol, Cls(WhiteSpace, 1, 1)>>, unit.target)
      targetHasTrailing == Test(<<Cls(WhiteSpace, 1, 1), Eol>>, unit.target)
      issues == (IF sourceHasLeading # targetHasLeading
                 THEN << <<"leading spaces">> >> ELSE <<>>)
             \o (IF sourceHasTrailing # targetHasTrailing
                 THEN << <<"trailing spaces">> >> ELSE <<>>)
  IN
  IF sourceHasLeading # targetHasLeading \/ sourceHasTrailing # targetHasTrailing
  THEN << Issue(unit, rid, "leading_trailing_spaces", "warning",
                <<"Inconsistent ">> \o Join(issues, <<" and ">>),
                << (IF sourceHasLeading /\ ~targetHasLeading THEN <<" ">> ELSE <<>>)
                   \o Trim(unit.target)
                   \o (IF sourceHasTrailing /\ ~targetHasTrailing
                       THEN <<" ">> ELSE <<>>) >>) >>
  ELSE <<>>

\* Object.entries(brackets), in insertion order
Brackets == << <<"(", ")">>, <<"[", "]">>, <<"{", "}">>, <<"<", ">">> >>

RECURSIVE BracketsFrom(_, _, _)
BracketsFrom(unit, rid, n) ==
  IF n > Len(Brackets) THEN <<>>
  ELSE LET open  == Brackets[n][1]
           close == Brackets[n][2]
       IN
       IF CountChar(unit.source, open) # CountChar(unit.target, open)
          \/ CountChar(unit.source, close) # CountChar(unit.target, close)
       THEN << Issue(unit, rid, "inconsistent_brackets", "error",
                     <<"Inconsistent ", open, close, " brackets">>, <<>>) >>
       ELSE BracketsFrom(unit, rid, n + 1)

checkInconsistentBrackets(unit, rid) == BracketsFrom(unit, rid, 1)

\* placeholderPatterns
PlaceholderPatterns ==
  << \* /%\d*\$?[sdif]/g
     << Lit("%"), Cls(Digit, 0, -1), Cls({"$"}, 0, 1),
        Cls({"s", "d", "i", "f"}, 1, 1) >>,
     \* /\{\{?\s*\w+\s*\}?\}/g
     << Lit("{"), Cls({"{"}, 0, 1), Cls(WhiteSpace, 0, -1), Cls(WordChar, 1, -1),
        Cls(WhiteSpace, 0, -1), Cls({"}"}, 0, 1), Lit("}") >>,
     \* /\$\{\w+\}/g
     << Lit("$"), Lit("{"), Cls(WordChar, 1, -1), Lit("}") >>,
     \* /:\w+/g
     << Lit(":"), Cls(WordChar, 1, -1) >>,
     \* /%\(\w+\)s/g
     << Lit("%"), Lit("("), Cls(WordChar, 1, -1), Lit(")"), Lit("s") >>,
     \* /\{\w+\}/g
     << Lit("{"), Cls(WordChar, 1, -1), Lit("}") >> >>

RECURSIVE PlaceholdersFrom(_, _, _)
PlaceholdersFrom(unit, rid, n) ==
  IF n > Len(PlaceholderPatterns) THEN <<>>
  ELSE LET sourcePlaceholders == MatchAll(PlaceholderPatterns[n], unit.source)
           targetPlaceholders == MatchAll(PlaceholderPatterns[n], unit.target)
       IN
       IF Len(sourcePlaceholders) # Len(targetPlaceholders)
       THEN << Issue(unit, rid, "inconsistent_placeholders", "error",
                     <<"Placeholder count mismatch: expected ">>
                       \o NumToString(Len(sourcePlaceholders))
                       \o <<", found ">>
                       \o NumToString(Len(targetPlaceholders)),
                     << <<"Ensure all placeholders (">>
                        \o Join(sourcePlaceholders, <<", ">>)
                        \o <<") are preserved">> >>) >>
       ELSE PlaceholdersFrom(unit, rid, n + 1)

checkInconsistentPlaceholders(unit, rid) == PlaceholdersFrom(unit, rid, 1)

\* s.slice(-1)
LastChar(s) == IF s = <<>> THEN <<>> ELSE << s[Len(s)] >>

PunctuationMarks == {".", "!", "?", ":", ";", ","}

checkInconsistentPunctuation(unit, rid) ==
  LET sourceEnd == LastChar(unit.source)
      targetEnd == LastChar(unit.target)
  IN
  IF sourceEnd # <<>> /\ sourceEnd[1] \in PunctuationMarks /\ sourceEnd # targetEnd
  THEN << Issue(unit, rid, "inconsistent_punctuation", "warning",
                <<"Inconsistent ending punctuation: source ends with \"">>
                  \o sourceEnd \o <<"\"">>,
                << unit.target \o sourceEnd >>) >>
  ELSE <<>>

checkInconsistentNumbers(unit, rid) ==
  LET sourceNumbers == MatchAll(<<Cls(Digit, 1, -1)>>, unit.source)
      targetNumbers == MatchAll(<<Cls(Digit, 1, -1)>>, unit.target)
  IN
  IF Len(sourceNumbers) # Len(targetNumbers)
  THEN << Issue(unit, rid, "inconsistent_numbers", "warning",
                <<"Number count mismatch: expected ">>
                  \o NumToString(Len(sourceNumbers)) \o <<", found ">>
                  \o NumToString(Len(targetNumbers)),
                <<>>) >>
  ELSE <<>>

\* /https?:\/\/[^\s]+/g
UrlPattern ==
  << Lit("h"), Lit("t"), Lit("t"), Lit("p"), Cls({"s"}, 0, 1), Lit(":"),
     Lit("/"), Lit("/"), NotCls(WhiteSpace, 1, -1) >>

checkInconsistentURLs(unit, rid) ==
  LET sourceUrls == MatchAll(UrlPattern, unit.source)
      targetUrls == MatchAll(UrlPattern, unit.target)
  IN
  IF Len(sourceUrls) # Len(targetUrls)
  THEN << Issue(unit, rid, "inconsistent_urls", "warning",
                <<"URL count mismatch: expected ">>
                  \o NumToString(Len(sourceUrls)) \o <<", found ">>
                  \o NumToString(Len(targetUrls)),
                << Join(sourceUrls, <<", ">>) >>) >>
  ELSE <<>>

\* /[\w.-]+@[\w.-]+\.\w+/g
EmailPattern ==
  << Cls(WordChar \cup {".", "-"}, 1, -1), Lit("@"),
     Cls(WordChar \cup {".", "-"}, 1, -1), Lit("."), Cls(WordChar, 1, -1) >>

checkInconsistentEmails(unit, rid) ==
  LET sourceEmails == MatchAll(EmailPattern, unit.source)
      targetEmails == MatchAll(EmailPattern, unit.target)
  IN
  IF Len(sourceEmails) # Len(targetEmails)
  THEN << Issue(unit, rid, "inconsistent_emails", "warning",
                <<"Email count mismatch: expected ">>
                  \o NumToString(Len(sourceEmails)) \o <<", found ">>
                  \o NumToString(Len(targetEmails)),
                <<>>) >>
  ELSE <<>>

\* the default of the maxRatio parameter, in tenths
DefaultMaxRatio == 15

\* (x * 100).toFixed(0) of the quotient a / b
PercentOf(a, b) == (200 * a + b) \div (2 * b)

checkTooLongTranslation(unit, rid, maxLengthRatio) ==
  LET maxRatio == IF maxLengthRatio = <<>> THEN DefaultMaxRatio
                  ELSE maxLengthRatio[1]
  IN
  IF Len(unit.source) > 0
     /\ Len(unit.target) * 10 > maxRatio * Len(unit.source)
  THEN << Issue(unit, rid, "too_long_translation", "warning",
                <<"Translation is ">>
                  \o NumToString(PercentOf(Len(unit.target), Len(unit.source)))
                  \o <<"% longer than source (max ">>
                  \o NumToString(maxRatio * 10) \o <<"%)">>,
                <<>>) >>
  ELSE <<>>

checkDuplicateTranslation(unit, allUnits, rid) ==
  LET IsDup(u) == /\ u.id # unit.id
                  /\ u.source = unit.source
                  /\ u.target = unit.target
                  /\ u.target # <<>>
      duplicates == SelectSeq(allUnits, IsDup)
  IN
  IF Len(duplicates) > 0
  THEN << Issue(unit, rid, "duplicate_translation", "info",
                <<"Duplicate translation found (">>
                  \o NumToString(Len(duplicates)) \o <<" instance">>
                  \o (IF Len(duplicates) > 1 THEN <<"s">> ELSE <<>>) \o <<")">>,
                <<>>) >>
  ELSE <<>>

\* /<\/?[a-zA-Z][a-zA-Z0-9]*[^>]*>/g
HtmlTagPattern ==
  << Lit("<"), Cls({"/"}, 0, 1), Cls(Letter, 1, 1), Cls(Letter \cup Digit, 0, -1),
     NotCls({">"}, 0, -1), Lit(">") >>

VoidElements == { <<"b","r">>, <<"h","r">>, <<"i","m","g">>,
                  <<"i","n","p","u","t">>, <<"m","e","t","a">>,
                  <<"l","i","n","k">> }

\* tag.startsWith / tag.endsWith
StartsWith(s, w) == IsPrefixAt(w, s, 1)

EndsWith(s, w) == Len(s) >= Len(w) /\ IsPrefixAt(w, s, Len(s) - Len(w) + 1)

\* s.replace(w, '') for a literal first occurrence
RemoveFirst(s, w) ==
  IF \E i \in 1..Len(s) : IsPrefixAt(w, s, i)
  THEN LET i == CHOOSE j \in 1..Len(s) :
                  IsPrefixAt(w, s, j) /\ \A h \in 1..(j - 1) : ~IsPrefixAt(w, s, h)
       IN Slice(s, 1, i - 1) \o Slice(s, i + Len(w), Len(s))
  ELSE s

\* s.split(' ')[0]
BeforeFirstSpace(s) ==
  IF \E i \in 1..Len(s) : s[i] = " "
  THEN Slice(s, 1, (CHOOSE i \in 1..Len(s) :
                      s[i] = " " /\ \A h \in 1..(i - 1) : s[h] # " ") - 1)
  ELSE s

RECURSIVE HtmlScan(_, _, _, _)
\* the loop over targetMatches with its stack openTags
HtmlScan(unit, rid, tags, openTags) ==
  IF tags = <<>>
  THEN IF Len(openTags) > 0
       THEN << Issue(unit, rid, "invalid_html_tags", "error",
                     <<"Unclosed HTML tags: ">> \o Join(openTags, <<", ">>),
                     <<>>) >>
       ELSE <<>>
  ELSE LET tag == Head(tags) IN
    IF StartsWith(tag, <<"<", "/">>)
    THEN LET tagName ==
               ToLowerCase(RemoveFirst(RemoveFirst(tag, <<"<", "/">>), <<">">>))
         IN
         IF Len(openTags) = 0 \/ openTags[Len(openTags)] # tagName
         THEN << Issue(unit, rid, "invalid_html_tags", "error",
                       <<"Unmatched closing tag: ">> \o tag, <<>>) >>
         ELSE HtmlScan(unit, rid, Tail(tags), Slice(openTags, 1, Len(openTags) - 1))
    ELSE IF ~EndsWith(tag, <<"/", ">">>)
    THEN LET tagName ==
               ToLowerCase(BeforeFirstSpace(
                 RemoveFirst(RemoveFirst(tag, <<"<">>), <<">">>)))
         IN
         IF tagName \notin VoidElements
         THEN HtmlScan(unit, rid, Tail(tags), Append(openTags, tagName))
         ELSE HtmlScan(unit, rid, Tail(tags), openTags)
    ELSE HtmlScan(unit, rid, Tail(tags), openTags)

checkInvalidHtmlTags(unit, rid) ==
  HtmlScan(unit, rid, MatchAll(HtmlTagPattern, unit.target), <<>>)

\* /<([a-zA-Z_][a-zA-Z0-9_]*)([^>]*)>/g
XmlTagPattern ==
  << Lit("<"), Cls(Letter \cup {"_"}, 1, 1), Cls(WordChar, 0, -1),
     NotCls({">"}, 0, -1), Lit(">") >>

\* match[1] of XmlTagPattern: the tag name of a matched tag
XmlTagName(tag) ==
  Slice(tag, 2,
        MatchFrom(<<Lit("<"), Cls(Letter \cup {"_"}, 1, 1), Cls(WordChar, 0, -1)>>,
                  1, tag, 1) - 1)

RECURSIVE Dedupe(_, _)
\* the insertion order of a Set built by add() over arr
Dedupe(arr, seen) ==
  IF arr = <<>> THEN <<>>
  ELSE IF Head(arr) \in seen THEN Dedupe(Tail(arr), seen)
  ELSE <<Head(arr)>> \o Dedupe(Tail(arr), seen \cup {Head(arr)})

XmlTagNames(s) ==
  LET tags == MatchAll(XmlTagPattern, s)
  IN Dedupe([i \in DOMAIN tags |-> XmlTagName(tags[i])], {})

checkInvalidXmlTags(unit, rid) ==
  LET sourceTags == Range(XmlTagNames(unit.source))
      targetTags == XmlTagNames(unit.target)
      NotInSource(tag) == tag \notin sourceTags
      missing == SelectSeq(targetTags, NotInSource)
  IN
  IF missing # <<>>
  THEN << Issue(unit, rid, "invalid_xml_tags", "warning",
                <<"XML tag \"">> \o missing[1] \o <<"\" not found in source">>,
                <<>>) >>
  ELSE <<>>

SpecialChars == <<"\n", "\t", "\\", "\"", "'">>

\* char.replace(/\n/, '\\n').replace(/\t/, '\\t')
ShowSpecialChar(c) ==
  IF c = "\n" THEN <<"\\", "n">>
  ELSE IF c = "\t" THEN <<"\\", "t">> ELSE <<c>>

RECURSIVE SpecialCharsFrom(_, _, _)
SpecialCharsFrom(unit, rid, n) ==
  IF n > Len(SpecialChars) THEN <<>>
  ELSE IF CountChar(unit.source, SpecialChars[n])
          # CountChar(unit.target, SpecialChars[n])
  THEN << Issue(unit, rid, "special_characters_mismatch", "warning",
                <<"Special character \"">> \o ShowSpecialChar(SpecialChars[n])
                  \o <<"\" count mismatch">>,
                <<>>) >>
  ELSE SpecialCharsFrom(unit, rid, n + 1)

checkSpecialCharactersMismatch(unit, rid) == SpecialCharsFrom(unit, rid, 1)

\* /\s{2,}/
MultiSpacePattern == << Cls(WhiteSpace, 2, -1) >>

\* /\r\n/
CrLfPattern == << Lit("\r"), Lit("\n") >>

checkFormattingIssues(unit, rid) ==
  IF Test(MultiSpacePattern, unit.target) /\ ~Test(MultiSpacePattern, unit.source)
  THEN << Issue(unit, rid, "formatting_issues", "info",
                <<"Multiple consecutive spaces in translation">>,
                << ReplaceAll(MultiSpacePattern, unit.target, <<" ">>) >>) >>
  ELSE IF Test(CrLfPattern, unit.target) /\ ~Test(CrLfPattern, unit.source)
  THEN << Issue(unit, rid, "formatting_issues", "info",
                <<"Inconsistent line endings (CRLF vs LF)">>, <<>>) >>
  ELSE <<>>

checkUntranslatedText(unit, rid) ==
  IF Len(unit.source) < 5 \/ Test(<<Bol, Cls(Digit, 1, -1), Eol>>, unit.source)
  THEN <<>>
  ELSE
    LET LongWord(w) == Len(w) > 3
        words == SelectSeq(Split(<<Cls(WhiteSpace, 1, -1)>>, unit.source), LongWord)
        InTarget(w) == Includes(ToLowerCase(unit.target), ToLowerCase(w))
        untranslatedWords == Len(SelectSeq(words, InTarget))
    IN
    IF Len(words) > 0 /\ 2 * untranslatedWords > Len(words)
    THEN << Issue(unit, rid, "untranslated_text", "warning",
                  <<"Translation appears to contain untranslated text">>,
                  <<>>) >>
    ELSE <<>>

\* checkTargetSameAsSource without the skip of sources shorter than 3
checkTargetSameAsSourceAnyLength(unit, rid) ==
  IF Test(<<Bol, NotCls(Letter \cup {"_"}, 1, -1), Eol>>, unit.source)
  THEN <<>>
  ELSE IF Trim(ToLowerCase(unit.source)) = Trim(ToLowerCase(unit.target))
  THEN << Issue(unit, rid, "target_same_as_source", "info",
                <<"Translation is identical to source text">>, <<>>) >>
  ELSE <<>>

checkTargetSameAsSource(unit, rid) ==
  \* /^[\d\s\W]+$/: every character is a digit, white space or a non-word one
  IF Len(unit.source) < 3
     \/ Test(<<Bol, NotCls(Letter \cup {"_"}, 1, -1), Eol>>, unit.source)
  THEN <<>>
  ELSE IF Trim(ToLowerCase(unit.source)) = Trim(ToLowerCase(unit.target))
  THEN << Issue(unit, rid, "target_same_as_source", "info",
                <<"Translation is identical to source text">>, <<>>) >>
  ELSE <<>>

\* new RegExp(`\\b${escaped}\\b`, 'i').test(text)
TestWordCaseInsensitive(term, text) ==
  LET t == ToLowerCase(term) IN
  Test(<<WordBoundary>> \o [i \in DOMAIN t |-> Lit(t[i])] \o <<WordBoundary>>,
       ToLowerCase(text))

checkKeyTermMismatch(unit, glossary, rid) ==
  IF glossary = <<>> THEN <<>>
  ELSE
    LET Violated(term) ==
          /\ term.source # <<>> /\ term.target # <<>>
          /\ TestWordCaseInsensitive(term.source, unit.source)
          /\ ~TestWordCaseInsensitive(term.target, unit.target)
        foundTerms == SelectSeq(glossary, Violated)
        termList == Join([i \in DOMAIN foundTerms |->
                            <<"\"">> \o foundTerms[i].source \o <<"\" → \"">>
                            \o foundTerms[i].target \o <<"\"">>], <<", ">>)
    IN
    IF Len(foundTerms) > 0
    THEN << Issue(unit, rid, "key_term_mismatch", "warning",
                  <<"Glossary term mismatch. Expected translations: ">> \o termList,
                  << Join([i \in DOMAIN foundTerms |-> foundTerms[i].target],
                          <<", ">>) >>) >>
    ELSE <<>>

\* /[a-zA-Z0-9]+/g
AlphaPattern == << Cls(Letter \cup Digit, 1, -1) >>

\* the properties every plain object ({}) inherits and an alphanumeric run can
\* name: a lookup map[a] finds them although the run was never stored
InheritedKeys ==
  { <<"c","o","n","s","t","r","u","c","t","o","r">>,
    <<"h","a","s","O","w","n","P","r","o","p","e","r","t","y">>,
    <<"i","s","P","r","o","t","o","t","y","p","e","O","f">>,
    <<"p","r","o","p","e","r","t","y","I","s","E","n","u","m","e","r","a","b","l","e">>,
    <<"t","o","S","t","r","i","n","g">>,
    <<"v","a","l","u","e","O","f">>,
    <<"t","o","L","o","c","a","l","e","S","t","r","i","n","g">> }

checkAlphanumericMismatch(unit, rid) ==
  LET sourceAlphas == MatchAll(AlphaPattern, unit.source)
      targetAlphas == MatchAll(AlphaPattern, unit.target)
      \* !targetMap[a] and !sourceMap[a]
      NotInTarget(a) == a \notin Range(targetAlphas) /\ a \notin InheritedKeys
      NotInSource(a) == a \notin Range(sourceAlphas) /\ a \notin InheritedKeys
      missingInTarget == SelectSeq(sourceAlphas, NotInTarget)
      extraInTarget == SelectSeq(targetAlphas, NotInSource)
  IN
  IF Len(missingInTarget) > 0 \/ Len(extraInTarget) > 0
  THEN << Issue(unit, rid, "alphanumeric_mismatch", "warning",
                <<"Alphanumeric mismatch.">>
                  \o (IF Len(missingInTarget) > 0
                      THEN <<" Missing in target: ">>
                           \o Join(Dedupe(missingInTarget, {}), <<", ">>) \o <<".">>
                      ELSE <<>>)
                  \o (IF Len(extraInTarget) > 0
                      THEN <<" Extra in target: ">>
                           \o Join(Dedupe(extraInTarget, {}), <<", ">>) \o <<".">>
                      ELSE <<>>),
                <<>>) >>
  ELSE <<>>

\* the comparison restricted to translated units
checkInconsistentSourceOfTranslated(unit, allUnits, rid) ==
  LET Other(u) == /\ u.id # unit.id /\ u.target = unit.target
                  /\ u.source # unit.source /\ u.target # <<>>
      duplicates == SelectSeq(allUnits, Other)
  IN
  IF Len(duplicates) > 0
  THEN << Issue(unit, rid, "inconsistent_source", "warning",
                <<"Inconsistent source: the same translation is used for different source texts.">>,
                <<>>) >>
  ELSE <<>>

checkInconsistentSource(unit, allUnits, rid) ==
  LET Other(u) == u.id # unit.id /\ u.target = unit.target /\ u.source # unit.source
      duplicates == SelectSeq(allUnits, Other)
  IN
  IF Len(duplicates) > 0
  THEN << Issue(unit, rid, "inconsistent_source", "warning",
                <<"Inconsistent source: the same translation is used for different source texts.">>,
                <<>>) >>
  ELSE <<>>

checkInconsistentTarget(unit, allUnits, rid) ==
  LET Other(u) == u.id # unit.id /\ u.source = unit.source /\ u.target # unit.target
      duplicates == SelectSeq(allUnits, Other)
  IN
  IF Len(duplicates) > 0
  THEN << Issue(unit, rid, "inconsistent_target", "warning",
                <<"Inconsistent target: the same source text has multiple different translations.">>,
                <<>>) >>
  ELSE <<>>

(***************************************************************************)
(* The analyzer driver.                                                    *)
(***************************************************************************)
\* the rule tags of the checks array of checkUnit, in its order
Checks ==
  << "missing_translation", "empty_translation", "leading_trailing_spaces",
     "inconsistent_brackets", "inconsistent_placeholders",
     "inconsistent_punctuation", "inconsistent_numbers", "inconsistent_urls",
     "inconsistent_emails", "too_long_translation", "duplicate_translation",
     "invalid_html_tags", "invalid_xml_tags", "special_characters_mismatch",
     "formatting_issues", "untranslated_text", "target_same_as_source",
     "key_term_mismatch", "alphanumeric_mismatch", "inconsistent_source",
     "inconsistent_target" >>

\* the check closure that the checks array pairs with each rule tag
RunCheck(rule, unit, allUnits, config, rid) ==
  CASE rule = "missing_translation" -> checkMissingTranslation(unit, rid)
    [] rule = "empty_translation" -> checkEmptyTranslation(unit, rid)
    [] rule = "leading_trailing_spaces" -> checkLeadingTrailingSpaces(unit, rid)
    [] rule = "inconsistent_brackets" -> checkInconsistentBrackets(unit, rid)
    [] rule = "inconsistent_placeholders" -> checkInconsistentPlaceholders(unit, rid)
    [] rule = "inconsistent_punctuation" -> checkInconsistentPunctuation(unit, rid)
    [] rule = "inconsistent_numbers" -> checkInconsistentNumbers(unit, rid)
    [] rule = "inconsistent_urls" -> checkInconsistentURLs(unit, rid)
    [] rule = "inconsistent_emails" -> checkInconsistentEmails(unit, rid)
    [] rule = "too_long_translation" ->
         checkTooLongTranslation(unit, rid, config.maxLengthRatio)
    [] rule = "duplicate_translation" -> checkDuplicateTranslation(unit, allUnits, rid)
    [] rule = "invalid_html_tags" -> checkInvalidHtmlTags(unit, rid)
    [] rule = "invalid_xml_tags" -> checkInvalidXmlTags(unit, rid)
    [] rule = "special_characters_mismatch" -> checkSpecialCharactersMismatch(unit, rid)
    [] rule = "formatting_issues" -> checkFormattingIssues(unit, rid)
    [] rule = "untranslated_text" -> checkUntranslatedText(unit, rid)
    [] rule = "target_same_as_source" -> checkTargetSameAsSource(unit, rid)
    [] rule = "key_term_mismatch" ->
         checkKeyTermMismatch(unit, config.glossary, rid)
    [] rule = "alphanumeric_mismatch" -> checkAlphanumericMismatch(unit, rid)
    [] rule = "inconsistent_source" -> checkInconsistentSource(unit, allUnits, rid)
    [] rule = "inconsistent_target" -> checkInconsistentTarget(unit, allUnits, rid)

\* MergeRules with the spreads in the opposite order:
\* { ...config.rules, ...DEFAULT_CONFIG.rules }
MergeRulesDefaultsLast(configRules) ==
  [ t \in (DOMAIN DefaultRules) \cup (DOMAIN configRules) |->
      IF t \in DOMAIN DefaultRules THEN DefaultRules[t] ELSE configRules[t] ]

\* { ...DEFAULT_CONFIG.rules, ...config.rules }
MergeRules(configRules) ==
  [ t \in (DOMAIN DefaultRules) \cup (DOMAIN configRules) |->
      IF t \in DOMAIN configRules THEN configRules[t] ELSE DefaultRules[t] ]

\* if (rules[rule])
RuleEnabled(rules, rule) == rule \in DOMAIN rules /\ rules[rule]

RECURSIVE CheckLoop(_, _, _, _, _, _, _)
RECURSIVE Collect(_, _, _, _, _, _, _, _)
\* Collect without issue.index = unit.index
CollectUnstamped(unit, allUnits, config, rules, seed, drawn, n, issue) ==
  IF issue # <<>>
  THEN issue \o CheckLoop(unit, allUnits, config, rules, seed, drawn + 1, n + 1)
  ELSE CheckLoop(unit, allUnits, config, rules, seed, drawn, n + 1)

\* Collect leaving the loop at the first issue of the unit
CollectFirstOnly(unit, allUnits, config, rules, seed, drawn, n, issue) ==
  IF issue # <<>>
  THEN << [issue[1] EXCEPT !.index = <<unit.index>>] >>
  ELSE CheckLoop(unit, allUnits, config, rules, seed, drawn, n + 1)

\* if (issue) { issue.index = unit.index; issues.push(issue) }, then the
\* checks after the n-th
Collect(unit, allUnits, config, rules, seed, drawn, n, issue) ==
  IF issue # <<>>
  THEN << [issue[1] EXCEPT !.index = <<unit.index>>] >>
       \o CheckLoop(unit, allUnits, config, rules, seed, drawn + 1, n + 1)
  ELSE CheckLoop(unit, allUnits, config, rules, seed, drawn, n + 1)

\* the for loop of checkUnit from the n-th check on; drawn: identifiers the
\* process has drawn so far
CheckLoop(unit, allUnits, config, rules, seed, drawn, n) ==
  IF n > Len(Checks) THEN <<>>
  ELSE IF RuleEnabled(rules, Checks[n])
  THEN Collect(unit, allUnits, config, rules, seed, drawn, n,
               RunCheck(Checks[n], unit, allUnits, config,
                        generateIssueId(seed, drawn + 1)))
  ELSE CheckLoop(unit, allUnits, config, rules, seed, drawn, n + 1)

checkUnit(unit, allUnits, config, seed, drawn) ==
  CheckLoop(unit, allUnits, config, MergeRules(config.rules), seed, drawn, 1)

RECURSIVE AllIssues(_, _, _, _, _, _)
\* AllIssues with allIssues.unshift(...issues) in place of push
AllIssuesUnshift(units, n, config, seed, drawn, acc) ==
  IF n > Len(units) THEN acc
  ELSE AllIssues(units, n + 1, config, seed, drawn,
                 checkUnit(units[n], units, config, seed, drawn + Len(acc)) \o acc)

\* the loop over file.units of runQA
AllIssues(units, n, config, seed, drawn, acc) ==
  IF n > Len(units) THEN acc
  ELSE AllIssues(units, n + 1, config, seed, drawn,
                 acc \o checkUnit(units[n], units, config, seed, drawn + Len(acc)))

\* CountByType with (stats.byType[issue.type] || 1)
CountByTypePresence(issues, byType) ==
  [ t \in (DOMAIN byType) \cup { issues[i].type : i \in DOMAIN issues } |-> 1 ]

RECURSIVE CountByType(_, _)
\* stats.byType[issue.type] = (stats.byType[issue.type] || 0) + 1
CountByType(issues, byType) ==
  IF issues = <<>> THEN byType
  ELSE LET t == Head(issues).type
           old == IF t \in DOMAIN byType THEN byType[t] ELSE 0
       IN CountByType(Tail(issues),
                      [ x \in (DOMAIN byType) \cup {t} |->
                          IF x = t THEN old + 1 ELSE byType[x] ])

CountSeverity(issues, sev) ==
  LET Is(i) == i.severity = sev IN Len(SelectSeq(issues, Is))

EmptyMap == [ x \in {} |-> 0 ]

\* the QAResult literal that runQA returns, over the issues collected
QAResult(file, allIssues, now) ==
  [ fileId |-> file.id,
    fileName |-> file.name,
    totalUnits |-> Len(file.units),
    issues |-> allIssues,
    stats |-> [ total |-> Len(allIssues),
                errors |-> CountSeverity(allIssues, "error"),
                warnings |-> CountSeverity(allIssues, "warning"),
                info |-> CountSeverity(allIssues, "info"),
                byType |-> CountByType(allIssues, EmptyMap) ],
    completedAt |-> now ]

\* rnd: the state of the random source, [seed, drawn]; now: the clock
runQA(file, config, rnd, now) ==
  QAResult(file, AllIssues(file.units, 1, config, rnd.seed, rnd.drawn, <<>>), now)

(***************************************************************************)
(* The texts the analysed units are drawn from.                            *)
(***************************************************************************)
\* ''
TxtEmpty ==
  <<>>

\* ' '
TxtBlank ==
  <<" ">>

\* 'OK'
TxtOK ==
  <<"O","K">>

\* 'Oui'
TxtOui ==
  <<"O","u","i">>

\* 'Save file'
TxtSaveFile ==
  <<"S","a","v","e"," ","f","i","l","e">>

\* 'Sure?'
TxtSure ==
  <<"S","u","r","e","?">>

\* 'Open file'
TxtOpenFile ==
  <<"O","p","e","n"," ","f","i","l","e">>

\* '%s(1)a@b.c'
TxtMixSource ==
  <<"%","s","(","1",")","a","@","b",".","c">>

\* '<i>Hi  http://x.y\n'
TxtMixTarget ==
  <<"<","i",">","H","i"," "," ","h","t","t","p",":","/","/","x",".","y","\n">>

\* 'file'
TxtFile ==
  <<"f","i","l","e">>

\* 'fichier'
TxtFichier ==
  <<"f","i","c","h","i","e","r">>

(***************************************************************************)
(* Inputs: translation files and configurations.                           *)
(***************************************************************************)
\* units per file
MaxUnits == 2

\* seeds of the random source that issue identifiers are drawn from: 0..MaxSeed
MaxSeed == 1

\* analyses per session
MaxRuns == 2

\* (source, target) of the units a file is made of
UnitPairs ==
  { <<TxtOK, TxtOK>>, <<TxtOK, TxtOui>>, <<TxtSaveFile, TxtEmpty>>,
    <<TxtSaveFile, TxtBlank>>, <<TxtSure, TxtEmpty>>,
    <<TxtOpenFile, TxtOpenFile>>, <<TxtMixSource, TxtMixTarget>> }

\* a TranslationUnit as every decoder builds it: a fresh id, index = position
Unit(n, pair) ==
  [ id |-> <<"unit_", n>>, key |-> <<"key_">> \o NumToString(n),
    source |-> pair[1], target |-> pair[2], index |-> n ]

\* a TranslationFile holding the given (source, target) pairs in order
File(pairs) ==
  [ id |-> <<"file_", 1>>, name |-> <<"messages.po">>,
    units |-> [ n \in DOMAIN pairs |-> Unit(n, pairs[n]) ] ]

Files ==
  { File(pairs) : pairs \in UNION { [1..n -> UnitPairs] : n \in 0..MaxUnits } }

Glossary == << [ source |-> TxtFile, target |-> TxtFichier ] >>

\* a configuration with a glossary, a partial rules map that disables one
\* implemented rule, enables the two unimplemented ones and carries a tag
\* that is no IssueType, and a length ratio of 1.0
CustomConfig ==
  [ rules |-> [ t \in {"alphanumeric_mismatch", "inconsistent_case",
                       "potentially_incorrect_translation",
                       "spell_check"} |-> t # "alphanumeric_mismatch" ],
    maxLengthRatio |-> <<10>>, glossary |-> Glossary ]

\* configurations a caller passes to runQA
Configs == { DEFAULT_CONFIG, CustomConfig }

(***************************************************************************)
(* State.  file, config, result: the file under analysis, the              *)
(* configuration in effect and the result of the last analysis.  history:  *)
(* the analyses made so far, each with the configuration it ran under.     *)
(* clock, rng: the wall clock and the random source.  edited: whether a    *)
(* setting was changed in the settings dialog.  fileName, detected: the    *)
(* name handed to the format detector and what it returned.  reader: the    *)
(* FileReader of parseFile, its state and the content it reads.  promise:  *)
(* the calls of resolve and reject that parseFile's promise received.      *)
(* files, results, glossary: the lists the application holds (useState).   *)
(* pending: the handlers that wait at an await, each with the values its   *)
(* closure captured when it was called.                                    *)
(***************************************************************************)
VARIABLES file, config, result, history, clock, rng, edited, fileName, detected,
          reader, promise, files, results, glossary, pending

vars == <<file, config, result, history, clock, rng, edited, fileName, detected, reader, promise,
          files, results, glossary, pending>>

NoFile == File(<<>>)

\* the analyzer is idle on the detector's side
NoDetection == fileName = <<>> /\ detected = <<"pending">>

\* the application as it is mounted
NoSession == files = <<>> /\ results = <<>> /\ glossary = <<>> /\ pending = <<>>

\* no file is being read
NoParsing ==
  /\ reader = [ state |-> "idle", content |-> [ kind |-> "text", doc |-> <<>> ] ]
  /\ promise = <<>>

Init ==
  /\ file \in Files
  /\ config \in Configs
  /\ result = <<>>
  /\ history = <<>>
  /\ clock = 0
  /\ rng \in [ seed : 0..MaxSeed, drawn : {0} ]
  /\ edited = FALSE
  /\ NoDetection
  /\ NoParsing
  /\ NoSession

\* one call of runQA(file, config); its result replaces the previous one
RunQA ==
  /\ clock < MaxRuns
  /\ result' = << runQA(file, config, rng, clock) >>
  /\ history' = Append(history, [ config |-> config, result |-> result'[1] ])
  /\ clock' = clock + 1
  /\ rng' = [ rng EXCEPT !.drawn = @ + Len(result'[1].issues) ]
  /\ UNCHANGED <<file, config, edited, fileName, detected, reader, promise,
                 files, results, glossary, pending>>

Next == RunQA

Spec == Init /\ [][Next]_vars

(***************************************************************************)
(* The settings dialog of App.tsx: a session analyses the file, changes    *)
(* one setting and re-runs the analysis under the changed configuration.   *)
(***************************************************************************)
\* the value of the parameter's default in the handler, in tenths
FallbackRatio == 15

RECURSIVE DigitsValue(_, _)
\* the number a run of decimal digits denotes
DigitsValue(ds, acc) ==
  IF ds = <<>> THEN acc
  ELSE DigitsValue(Tail(ds),
                   10 * acc + (CHOOSE d \in 0..9 : NumToString(d) = <<Head(ds)>>))

\* parseFloat(text), in tenths: <<>> is NaN.  Leading white space is skipped
\* and the longest prefix [+-]?digits[.digits] is read
ParseFloat(text) ==
  LET p0 == TrimStartPos(text, 1)
      signed == p0 <= Len(text) /\ text[p0] \in {"-", "+"}
      p1 == IF signed THEN p0 + 1 ELSE p0
      n1 == RunLen(Cls(Digit, 0, -1), text, p1, 0)
      dot == p1 + n1 <= Len(text) /\ text[p1 + n1] = "."
      n2 == IF dot THEN RunLen(Cls(Digit, 0, -1), text, p1 + n1 + 1, 0) ELSE 0
      whole == DigitsValue(Slice(text, p1, p1 + n1 - 1), 0)
      tenth == IF n2 > 0 THEN DigitsValue(<<text[p1 + n1 + 1]>>, 0) ELSE 0
      magnitude == 10 * whole + tenth
  IN
  IF n1 + n2 = 0 THEN <<>>
  ELSE IF signed /\ text[p0] = "-" THEN << 0 - magnitude >> ELSE << magnitude >>

\* what is typed into the Max Length Ratio field
RatioInputs ==
  { <<>>, <<"a","b","c">>, <<"0">>, <<"0",".","5">>, <<"1">>, <<"2",".","5">>,
    <<"3">>, <<"5">> }

\* checked={config.rules[type] !== false}
Checked(cfg, t) == ~(t \in DOMAIN cfg.rules /\ cfg.rules[t] = FALSE)

\* rules: { ...prev.rules, [type]: checked === true }
WithRule(cfg, t, checked) ==
  [ cfg EXCEPT !.rules =
      [ x \in (DOMAIN cfg.rules) \cup {t} |-> IF x = t THEN checked ELSE cfg.rules[x] ] ]

\* maxLengthRatio: parseFloat(e.target.value) || 1.5
WithRatio(cfg, text) ==
  LET parsed == ParseFloat(text) IN
  [ cfg EXCEPT !.maxLengthRatio =
      IF parsed = <<>> \/ parsed[1] = 0 THEN <<FallbackRatio>> ELSE parsed ]

\* the units of the files a settings session analyses: between them they
\* make every implemented rule report
SessionPairs == UnitPairs \ { <<TxtOK, TxtOK>>, <<TxtOK, TxtOui>> }

SessionFiles ==
  { File(pairs) : pairs \in UNION { [1..n -> SessionPairs] : n \in 0..MaxUnits } }

\* the configurations the application holds before the dialog is opened:
\* the initial one, and the one after a glossary was loaded
SettingsConfigs == { DEFAULT_CONFIG, [ DEFAULT_CONFIG EXCEPT !.glossary = Glossary ] }

SettingsInit ==
  /\ file \in SessionFiles
  /\ config \in SettingsConfigs
  /\ result = <<>>
  /\ history = <<>>
  /\ clock = 0
  /\ rng = [ seed |-> 0, drawn |-> 0 ]
  /\ edited = FALSE
  /\ NoDetection
  /\ NoParsing
  /\ NoSession

\* a click on the checkbox of rule t: onCheckedChange with the opposite state
ToggleRule(t) ==
  /\ history # <<>> /\ ~edited
  /\ config' = WithRule(config, t, ~Checked(config, t))
  /\ edited' = TRUE
  /\ UNCHANGED <<file, result, history, clock, rng, fileName, detected, reader, promise,
                 files, results, glossary, pending>>

\* onChange of the Max Length Ratio field
SetMaxLengthRatio(text) ==
  /\ history # <<>> /\ ~edited
  /\ config' = WithRatio(config, text)
  /\ edited' = TRUE
  /\ UNCHANGED <<file, result, history, clock, rng, fileName, detected, reader, promise,
                 files, results, glossary, pending>>

\* the Reset to Default button
ResetToDefault ==
  /\ history # <<>> /\ ~edited
  /\ config' = DEFAULT_CONFIG
  /\ edited' = TRUE
  /\ UNCHANGED <<file, result, history, clock, rng, fileName, detected, reader, promise,
                 files, results, glossary, pending>>

\* the first analysis, and Apply & Re-run once the configuration has changed
Analyze ==
  /\ IF history = <<>> THEN TRUE ELSE history[Len(history)].config # config
  /\ RunQA

SettingsNext ==
  \/ Analyze
  \/ \E t \in IssueTypes : ToggleRule(t)
  \/ \E text \in RatioInputs : SetMaxLengthRatio(text)
  \/ ResetToDefault

SpecSettings == SettingsInit /\ [][SettingsNext]_vars

(***************************************************************************)
(* The format detector.                                                    *)
(***************************************************************************)
\* SUPPORTED_FILE_EXTENSIONS, in declaration order
SUPPORTED_FILE_EXTENSIONS ==
  <<<< <<".","j","s","o","n">>, "json" >>,
     << <<".","x","l","i","f","f">>, "xliff" >>,
     << <<".","x","l","f">>, "xliff" >>,
     << <<".","s","d","l","x","l","i","f","f">>, "sdlxliff" >>,
     << <<".","x","m","l">>, "xml" >>,
     << <<".","p","o">>, "po" >>,
     << <<".","p","o","t">>, "pot" >>,
     << <<".","s","t","r","i","n","g","s">>, "strings" >>,
     << <<".","y","a","m","l">>, "yaml" >>,
     << <<".","y","m","l">>, "yml" >>,
     << <<".","p","r","o","p","e","r","t","i","e","s">>, "properties" >>,
     << <<".","r","e","s","x">>, "resx" >>,
     << <<".","c","s","v">>, "csv" >>,
     << <<".","t","m","x">>, "tmx" >>,
     << <<".","t","s","v">>, "tsv" >> >>

\* String.prototype.toUpperCase
ToUpperCase(s) ==
  [ i \in DOMAIN s |->
      IF s[i] \in Lower
      THEN UpperSeq[CHOOSE j \in DOMAIN LowerSeq : LowerSeq[j] = s[i]]
      ELSE s[i] ]

\* fileName.lastIndexOf('.'), 0-based; -1 when there is no dot
LastIndexOfDot(s) ==
  IF \E i \in DOMAIN s : s[i] = "."
  THEN (CHOOSE i \in DOMAIN s :
          s[i] = "." /\ \A j \in DOMAIN s : j > i => s[j] # ".") - 1
  ELSE 0 - 1

\* s.substring(start): a negative start counts as 0
Substring(s, start) == Slice(s, (IF start < 0 THEN 0 ELSE start) + 1, Len(s))

\* the names that every object literal resolves through Object.prototype and
\* that survive toLowerCase
InheritedNames ==
  { <<"c","o","n","s","t","r","u","c","t","o","r">>,
    <<"_","_","p","r","o","t","o","_","_">> }

\* SUPPORTED_FILE_EXTENSIONS[extension] || null
detectFileType(name) ==
  LET extension == Substring(ToLowerCase(name), LastIndexOfDot(name))
      Own(e) == e[1] = extension
      own == SelectSeq(SUPPORTED_FILE_EXTENSIONS, Own)
  IN
  IF own # <<>> THEN << own[1][2] >>
  ELSE IF extension \in InheritedNames THEN << "inherited" >>
  ELSE <<>>

Stems == { <<>>, <<"a">>, <<"M","y",".","F","i","l","e">>, <<"x",".","j","s","o","n">> }

OtherExtensions ==
  { <<".","t","x","t">>, <<".","j","s","o">>, <<".","y","m","l","l">>, <<".">>,
    <<".","P","o","T">>, <<".","Y","m","l">> }

DotlessNames ==
  { <<"j","s","o","n">>, <<"R","E","A","D","M","E">>, <<"c","o","n","s","t","r","u","c","t","o","r">>,
    <<"_","_","p","r","o","t","o","_","_">>, <<"p","o">> }

FileNames ==
  { st \o ex : st \in Stems,
               ex \in { SUPPORTED_FILE_EXTENSIONS[i][1] :
                          i \in DOMAIN SUPPORTED_FILE_EXTENSIONS }
                      \cup { ToUpperCase(SUPPORTED_FILE_EXTENSIONS[i][1]) :
                               i \in DOMAIN SUPPORTED_FILE_EXTENSIONS }
                      \cup OtherExtensions }
  \cup DotlessNames

DetectInit ==
  /\ file = NoFile
  /\ config = DEFAULT_CONFIG
  /\ result = <<>>
  /\ history = <<>>
  /\ clock = 0
  /\ rng = [ seed |-> 0, drawn |-> 0 ]
  /\ edited = FALSE
  /\ fileName \in FileNames
  /\ detected = <<"pending">>
  /\ NoParsing
  /\ NoSession

\* one call of detectFileType(fileName)
Detect ==
  /\ detected = <<"pending">>
  /\ detected' = detectFileType(fileName)
  /\ UNCHANGED <<file, config, result, history, clock, rng, edited, fileName, reader, promise,
                 files, results, glossary, pending>>

DetectNext == Detect

SpecDetect == DetectInit /\ [][DetectNext]_vars

(***************************************************************************)
(* The file decoders.  What the FileReader hands to onload is a document:  *)
(* a JSON value, an XML tree, or plain text.  JSON.parse and DOMParser     *)
(* succeed on the documents of their kind and fail on the others.          *)
(*                                                                         *)
(* A JSON value is a record [t, v]: t names its type and v holds, for an   *)
(* object, its members <<key, value>> in document order.                   *)
(***************************************************************************)
JStr(s) == [ t |-> "str", v |-> s ]

JObj(members) == [ t |-> "obj", v |-> members ]

JArr(items) == [ t |-> "arr", v |-> items ]

JNum(n) == [ t |-> "num", v |-> n ]

JNull == [ t |-> "null", v |-> 0 ]

\* generateId: the n-th identifier that Math.random yields in a process
\* whose random source started from the given seed
generateId(seed, n) == <<"id_", seed, n>>

\* the TranslationUnit literal the decoders push; an optional field is a
\* sequence of length 0 (absent) or 1 (present)
TranslationUnit(id, key, source, target, notes, path, index) ==
  [ id |-> id, key |-> key, source |-> source, target |-> target,
    context |-> <<>>, notes |-> notes, filePath |-> path,
    lineNumber |-> <<>>, index |-> index ]

\* the TranslationFile literal the decoders return
TranslationFile(id, name, type, langs, units, now, size) ==
  [ id |-> id, name |-> name, type |-> type, sourceLanguage |-> langs[1],
    targetLanguage |-> langs[2], units |-> units, uploadedAt |-> now,
    size |-> size ]

\* new FileParserError(message, fileName)
FileParserError(message, name) ==
  [ name |-> "FileParserError", message |-> message, fileName |-> name ]

\* a canonical array index: such property names are enumerated first
IsArrayIndex(key) ==
  /\ key # <<>>
  /\ \A i \in DOMAIN key : key[i] \in Digit
  /\ Len(key) = 1 \/ key[1] # "0"

RECURSIVE Ascending(_)
\* the array-index keys of a set in ascending numeric order
Ascending(keys) ==
  IF keys = {} THEN <<>>
  ELSE LET least == CHOOSE k \in keys :
                      \A h \in keys : DigitsValue(k, 0) <= DigitsValue(h, 0)
       IN <<least>> \o Ascending(keys \ {least})

\* the own properties of the object that JSON.parse builds from the members:
\* array indices ascending, then the other keys in order of first
\* appearance; of two members with one key the later value stays
OwnProperties(members) ==
  LET keys == Dedupe([ i \in DOMAIN members |-> members[i][1] ], {})
      IsName(k) == ~IsArrayIndex(k)
      order == Ascending({ k \in Range(keys) : IsArrayIndex(k) })
               \o SelectSeq(keys, IsName)
      ValueOf(k) ==
        members[CHOOSE i \in DOMAIN members :
                  /\ members[i][1] = k
                  /\ \A j \in DOMAIN members : j > i => members[j][1] # k][2]
  IN [ i \in DOMAIN order |-> << order[i], ValueOf(order[i]) >> ]

\* Object.entries(value): the members of an object, the elements of an array
\* and the characters of a string under their indices; nothing for a number
ObjectEntries(value) ==
  CASE value.t = "obj" -> OwnProperties(value.v)
    [] value.t = "arr" ->
         [ i \in DOMAIN value.v |-> << NumToString(i - 1), value.v[i] >> ]
    [] value.t = "str" ->
         [ i \in DOMAIN value.v |-> << NumToString(i - 1), JStr(<<value.v[i]>>) >> ]
    [] OTHER -> <<>>

RECURSIVE ExtractEntries(_, _, _, _, _)
\* the for loop of extractTranslations over the entries from the i-th on;
\* units is the array the units are pushed to, at[1] the file name and
\* at[2], at[3] the seed and the position of the random source
ExtractEntries(entries, i, prefix, units, at) ==
  IF i > Len(entries) THEN units
  ELSE
    LET key == entries[i][1]
        value == entries[i][2]
        fullKey == IF prefix # <<>> THEN prefix \o <<".">> \o key ELSE key
    IN
    IF value.t = "str"
    THEN ExtractEntries(entries, i + 1, prefix,
           Append(units,
             TranslationUnit(generateId(at[2], at[3] + Len(units)), fullKey,
                             value.v, <<>>, <<>>, at[1], Len(units) + 1)),
           at)
    ELSE IF value.t \in {"obj", "arr"}
    THEN ExtractEntries(entries, i + 1, prefix,
           ExtractEntries(ObjectEntries(value), 1, fullKey, units, at), at)
    ELSE ExtractEntries(entries, i + 1, prefix, units, at)

\* extractTranslations(obj, prefix) with units the array it pushes to
extractTranslations(obj, prefix, units, at) ==
  ExtractEntries(ObjectEntries(obj), 1, prefix, units, at)

\* is the value truthy
Truthy(value) ==
  CASE value.t = "str" -> value.v # <<>>
    [] value.t = "num" -> value.v # 0
    [] value.t = "null" -> FALSE
    [] OTHER -> TRUE

\* data[name]: <<>> is undefined
Property(data, name) ==
  LET Named(e) == e[1] = name
      own == SelectSeq(ObjectEntries(data), Named)
  IN IF data.t = "obj" /\ own # <<>> THEN << own[1][2] >> ELSE <<>>

\* data.translations || data.messages || data.strings, or else data
UnwrappedRoot(data) ==
  LET Wrapped(name) ==
        Property(data, name) # <<>> /\ Truthy(Property(data, name)[1])
  IN
  IF Wrapped(<<"t","r","a","n","s","l","a","t","i","o","n","s">>) THEN Property(data, <<"t","r","a","n","s","l","a","t","i","o","n","s">>)[1]
  ELSE IF Wrapped(<<"m","e","s","s","a","g","e","s">>) THEN Property(data, <<"m","e","s","s","a","g","e","s">>)[1]
  ELSE IF Wrapped(<<"s","t","r","i","n","g","s">>) THEN Property(data, <<"s","t","r","i","n","g","s">>)[1]
  ELSE data

\* the outcome of a decoder that returns a TranslationFile over its units:
\* one more identifier is drawn for the file.  The outcome also tells how
\* many identifiers were drawn in all
Decoded(units, type, langs, at, drawn, size) ==
  << "return",
     TranslationFile(generateId(at[2], at[3] + drawn), at[1], type, langs,
                     units, at[4], size),
     drawn + 1 >>

\* the file over units each of which took one identifier; sourceLanguage
\* is 'en' and targetLanguage ''
DecodedUnits(units, type, at, size) ==
  Decoded(units, type, << <<"e","n">>, <<>> >>, at, Len(units), size)

\* parseJSON(content, fileName): <<"return", file>> or <<"throw", error>>.
\* parsed is JSON.parse(content), <<>> when it throws; reading a property
\* of null throws too, and the catch turns both into one FileParserError
parseJSON(parsed, size, at) ==
  IF parsed = <<>> \/ parsed[1].t = "null"
  THEN << "throw", FileParserError(<<"Invalid JSON format">>, at[1]) >>
  ELSE DecodedUnits(extractTranslations(UnwrappedRoot(parsed[1]), <<>>, <<>>, at),
                    "json", at, size)

(***************************************************************************)
(* XML documents.  A node is a record [tag, attrs, kids, text]: an element *)
(* has a tag name, attributes <<name, value>> and child nodes; a text node *)
(* has the tag <<"#text">> and its characters.  Names are texts.            *)
(***************************************************************************)
El(tag, attrs, kids) == [ tag |-> tag, attrs |-> attrs, kids |-> kids, text |-> <<>> ]

Tx(s) == [ tag |-> <<"#text">>, attrs |-> <<>>, kids |-> <<>>, text |-> s ]

\* the document DOMParser returns for content that is not well-formed XML
ParserErrorDocument ==
  El(<<"#document">>, <<>>,
     << El(<<"p","a","r","s","e","r","e","r","r","o","r">>, <<>>,
           << Tx(<<"e","r","r","o","r">>) >>) >>)

RECURSIVE Descendants(_)
\* the elements below the given nodes, in document order
Descendants(nodes) ==
  IF nodes = <<>> THEN <<>>
  ELSE (IF Head(nodes).tag = <<"#text">> THEN <<>>
        ELSE << Head(nodes) >> \o Descendants(Head(nodes).kids))
       \o Descendants(Tail(nodes))

\* node.getElementsByTagName(tag)
getElementsByTagName(node, tag) ==
  LET Tagged(e) == e.tag = tag
  IN SelectSeq(Descendants(node.kids), Tagged)

RECURSIVE TextOfNodes(_)
TextOfNodes(nodes) ==
  IF nodes = <<>> THEN <<>>
  ELSE (IF Head(nodes).tag = <<"#text">> THEN Head(nodes).text
        ELSE TextOfNodes(Head(nodes).kids))
       \o TextOfNodes(Tail(nodes))

\* node.getElementsByTagName(tag)[0]?.textContent || ''
FirstText(node, tag) ==
  LET found == getElementsByTagName(node, tag)
  IN IF found = <<>> THEN <<>> ELSE TextOfNodes(found[1].kids)

\* el.getAttribute(name) || '': an absent attribute reads as null
getAttribute(el, name) ==
  LET Named(a) == a[1] = name
      own == SelectSeq(el.attrs, Named)
  IN IF own = <<>> THEN <<>> ELSE own[1][2]

\* text || undefined
OrUndefined(text) == IF text = <<>> THEN <<>> ELSE << text >>

RECURSIVE XliffUnits(_, _, _, _, _)
\* the loop of parseXLIFF over trans-unit elements from the i-th on; drawn
\* counts the identifiers taken so far.  Gives <<units, drawn>>
XliffUnits(transUnits, i, units, drawn, at) ==
  IF i > Len(transUnits) THEN << units, drawn >>
  ELSE
    LET unit == transUnits[i]
        named == getAttribute(unit, <<"i","d">>) # <<>>
        id == IF named THEN getAttribute(unit, <<"i","d">>)
              ELSE generateId(at[2], at[3] + drawn)
        taken == IF named THEN drawn ELSE drawn + 1
    IN XliffUnits(transUnits, i + 1,
         Append(units,
           TranslationUnit(generateId(at[2], at[3] + taken), id,
                           FirstText(unit, <<"s","o","u","r","c","e">>), FirstText(unit, <<"t","a","r","g","e","t">>),
                           OrUndefined(FirstText(unit, <<"n","o","t","e">>)), at[1],
                           Len(units) + 1)),
         taken + 1, at)

\* the return of parseXLIFF over the units and the count of identifiers
XliffFile(fileEl, done, at, size) ==
  Decoded(done[1], "xliff",
          << IF getAttribute(fileEl, <<"s","o","u","r","c","e","-","l","a","n","g","u","a","g","e">>) = <<>> THEN <<"e","n">>
             ELSE getAttribute(fileEl, <<"s","o","u","r","c","e","-","l","a","n","g","u","a","g","e">>),
             getAttribute(fileEl, <<"t","a","r","g","e","t","-","l","a","n","g","u","a","g","e">>) >>,
          at, done[2], size)

\* parseXLIFF(content, fileName), doc being what DOMParser made of content
parseXLIFF(doc, size, at) ==
  IF getElementsByTagName(doc, <<"p","a","r","s","e","r","e","r","r","o","r">>) # <<>>
  THEN << "throw", FileParserError(<<"Invalid XLIFF format">>, at[1]) >>
  ELSE IF getElementsByTagName(doc, <<"f","i","l","e">>) = <<>>
  THEN << "throw", FileParserError(<<"No file elements found in XLIFF">>, at[1]) >>
  ELSE XliffFile(getElementsByTagName(doc, <<"f","i","l","e">>)[1],
                 XliffUnits(getElementsByTagName(doc, <<"t","r","a","n","s","-","u","n","i","t">>), 1, <<>>, 0, at),
                 at, size)

\* getAttribute('name') || `${stem}${i}`
NameOr(el, stem, i) ==
  IF getAttribute(el, <<"n","a","m","e">>) = <<>> THEN stem \o NumToString(i)
  ELSE getAttribute(el, <<"n","a","m","e">>)

RECURSIVE StringUnits(_, _, _, _)
\* the loop of parseXML over string elements
StringUnits(els, i, units, at) ==
  IF i > Len(els) THEN units
  ELSE StringUnits(els, i + 1,
         Append(units,
           TranslationUnit(generateId(at[2], at[3] + Len(units)),
                           NameOr(els[i], <<"s","t","r","i","n","g","_">>, i - 1),
                           TextOfNodes(els[i].kids), <<>>, <<>>, at[1],
                           Len(units) + 1)),
         at)

RECURSIVE ItemUnits(_, _, _, _, _)
\* the inner loop of parseXML over the item elements of one string-array
ItemUnits(name, items, j, units, at) ==
  IF j > Len(items) THEN units
  ELSE ItemUnits(name, items, j + 1,
         Append(units,
           TranslationUnit(generateId(at[2], at[3] + Len(units)),
                           name \o <<"[">> \o NumToString(j - 1) \o <<"]">>,
                           TextOfNodes(items[j].kids), <<>>, <<>>, at[1],
                           Len(units) + 1)),
         at)

RECURSIVE ArrayUnits(_, _, _, _)
\* the loop of parseXML over string-array elements
ArrayUnits(arrs, i, units, at) ==
  IF i > Len(arrs) THEN units
  ELSE ArrayUnits(arrs, i + 1,
         ItemUnits(NameOr(arrs[i], <<"a","r","r","a","y","_">>, i - 1),
                   getElementsByTagName(arrs[i], <<"i","t","e","m">>), 1, units, at),
         at)

\* parseXML(content, fileName)
parseXML(doc, size, at) ==
  IF getElementsByTagName(doc, <<"p","a","r","s","e","r","e","r","r","o","r">>) # <<>>
  THEN << "throw", FileParserError(<<"Invalid XML format">>, at[1]) >>
  ELSE DecodedUnits(
         ArrayUnits(getElementsByTagName(doc, <<"s","t","r","i","n","g","-","a","r","r","a","y">>), 1,
                    StringUnits(getElementsByTagName(doc, <<"s","t","r","i","n","g">>), 1, <<>>, at),
                    at),
         "xml", at, size)

RECURSIVE DataUnits(_, _, _, _)
\* the loop of parseRESX over data elements
DataUnits(els, i, units, at) ==
  IF i > Len(els) THEN units
  ELSE DataUnits(els, i + 1,
         Append(units,
           TranslationUnit(generateId(at[2], at[3] + Len(units)),
                           NameOr(els[i], <<"d","a","t","a","_">>, i - 1),
                           FirstText(els[i], <<"v","a","l","u","e">>), <<>>,
                           OrUndefined(FirstText(els[i], <<"c","o","m","m","e","n","t">>)), at[1],
                           Len(units) + 1)),
         at)

\* parseRESX(content, fileName)
parseRESX(doc, size, at) ==
  IF getElementsByTagName(doc, <<"p","a","r","s","e","r","e","r","r","o","r">>) # <<>>
  THEN << "throw", FileParserError(<<"Invalid RESX format">>, at[1]) >>
  ELSE DecodedUnits(DataUnits(getElementsByTagName(doc, <<"d","a","t","a">>), 1, <<>>, at),
                    "resx", at, size)

RECURSIVE TuvTexts(_, _, _)
\* the loop of parseTMX over the tuv elements of one tu: st is <<source,
\* target>>; the first tuv and every tuv in an 'en' language give the source
TuvTexts(tuvs, j, st) ==
  IF j > Len(tuvs) THEN st
  ELSE
    LET lang == IF getAttribute(tuvs[j], <<"x","m","l",":","l","a","n","g">>) # <<>>
                THEN getAttribute(tuvs[j], <<"x","m","l",":","l","a","n","g">>)
                ELSE getAttribute(tuvs[j], <<"l","a","n","g">>)
        text == FirstText(tuvs[j], <<"s","e","g">>)
    IN TuvTexts(tuvs, j + 1,
                IF j = 1 \/ StartsWith(lang, <<"e","n">>) THEN << text, st[2] >>
                ELSE << st[1], text >>)

\* the unit parseTMX pushes for a tu with the given texts
TuUnit(tu, i, st, units, at) ==
  TranslationUnit(generateId(at[2], at[3] + Len(units)),
                  IF getAttribute(tu, <<"i","d">>) = <<>> THEN <<"t","u","_">> \o NumToString(i)
                  ELSE getAttribute(tu, <<"i","d">>),
                  st[1], st[2], <<>>, at[1], Len(units) + 1)

RECURSIVE TuUnits(_, _, _, _)
\* the loop of parseTMX over tu elements
TuUnits(tus, i, units, at) ==
  IF i > Len(tus) THEN units
  ELSE TuUnits(tus, i + 1,
         Append(units,
           TuUnit(tus[i], i - 1,
                  TuvTexts(getElementsByTagName(tus[i], <<"t","u","v">>), 1, << <<>>, <<>> >>),
                  units, at)),
         at)

\* parseTMX(content, fileName)
parseTMX(doc, size, at) ==
  IF getElementsByTagName(doc, <<"p","a","r","s","e","r","e","r","r","o","r">>) # <<>>
  THEN << "throw", FileParserError(<<"Invalid TMX format">>, at[1]) >>
  ELSE DecodedUnits(TuUnits(getElementsByTagName(doc, <<"t","u">>), 1, <<>>, at),
                    "tmx", at, size)

(***************************************************************************)
(* The line-oriented decoders.                                             *)
(***************************************************************************)
\* s.indexOf(c) from position i on, 1-based; 0 when c does not occur
IndexFrom(s, c, i) ==
  IF \E j \in i..Len(s) : s[j] = c
  THEN CHOOSE j \in i..Len(s) : s[j] = c /\ \A h \in i..(j - 1) : s[h] # c
  ELSE 0

RECURSIVE SplitLinesFrom(_, _, _)
\* the lines of the text from position p on, nl being the position of the
\* next line feed (0: none)
SplitLinesFrom(text, p, nl) ==
  IF nl = 0 THEN << Slice(text, p, Len(text)) >>
  ELSE << Slice(text, p, nl - 1) >>
       \o SplitLinesFrom(text, nl + 1, IndexFrom(text, "\n", nl + 1))

\* content.split('\n')
SplitLines(text) == SplitLinesFrom(text, 1, IndexFrom(text, "\n", 1))

\* the characters that . does not match
LineTerminators == {"\n", "\r"}

\* .replace(/\\n/g, '\n').replace(/\\"/g, '"').replace(/\\\\/g, '\\')
Unescape(s) ==
  ReplaceAll(<< Lit("\\"), Lit("\\") >>,
    ReplaceAll(<< Lit("\\"), Lit("\"") >>,
      ReplaceAll(<< Lit("\\"), Lit("n") >>, s, <<"\n">>), <<"\"">>), <<"\\">>)

\* extractQuotedString: group 1 of /^\s*"(.*)"\s*$/, unescaped, or ''.  The
\* group runs from the first character after the leading white space, a
\* quote, to the last character before the trailing white space, a quote
extractQuotedString(str) ==
  LET p == TrimStartPos(str, 1)
      q == TrimEndPos(str, Len(str))
  IN
  IF /\ p < q
     /\ str[p] = "\"" /\ str[q] = "\""
     /\ \A i \in (p + 1)..(q - 1) : str[i] \notin LineTerminators
  THEN Unescape(Slice(str, p + 1, q - 1))
  ELSE <<>>

\* saveUnit of parsePO: st holds currentMsgid, currentMsgstr, currentContext,
\* currentNotes, inMsgid, inMsgstr and units
saveUnit(st, at) ==
  [ st EXCEPT
      !.units =
        IF st.msgid = <<>> THEN @
        ELSE Append(@,
          [ TranslationUnit(generateId(at[2], at[3] + Len(st.units)),
              IF st.context # <<>> THEN st.context \o <<"U+0004">> \o st.msgid
              ELSE st.msgid,
              st.msgid, st.msgstr, OrUndefined(st.notes), at[1],
              Len(st.units) + 1)
            EXCEPT !.context = OrUndefined(st.context) ]),
      !.msgid = <<>>, !.msgstr = <<>>, !.context = <<>>, !.notes = <<>> ]

\* the body of the loop of parsePO for one line, already trimmed
PoLine(st, trimmed, at) ==
  IF StartsWith(trimmed, <<"m","s","g","c","t","x","t"," ">>)
  THEN [ saveUnit(st, at) EXCEPT
           !.inMsgid = FALSE, !.inMsgstr = FALSE,
           !.context = extractQuotedString(Slice(trimmed, 9, Len(trimmed))) ]
  ELSE IF StartsWith(trimmed, <<"m","s","g","i","d"," ">>)
  THEN [ (IF st.inMsgstr THEN saveUnit(st, at) ELSE st) EXCEPT
           !.inMsgid = TRUE, !.inMsgstr = FALSE,
           !.msgid = extractQuotedString(Slice(trimmed, 7, Len(trimmed))) ]
  ELSE IF StartsWith(trimmed, <<"m","s","g","s","t","r"," ">>)
  THEN [ st EXCEPT
           !.inMsgid = FALSE, !.inMsgstr = TRUE,
           !.msgstr = extractQuotedString(Slice(trimmed, 8, Len(trimmed))) ]
  ELSE IF StartsWith(trimmed, <<"\"">>) /\ st.inMsgid
  THEN [ st EXCEPT !.msgid = @ \o extractQuotedString(trimmed) ]
  ELSE IF StartsWith(trimmed, <<"\"">>) /\ st.inMsgstr
  THEN [ st EXCEPT !.msgstr = @ \o extractQuotedString(trimmed) ]
  ELSE IF StartsWith(trimmed, <<"#",".">>)
  THEN [ st EXCEPT
           !.notes = @ \o (IF @ # <<>> THEN <<" ">> ELSE <<>>)
                       \o Trim(Slice(trimmed, 3, Len(trimmed))) ]
  ELSE st

RECURSIVE PoLines(_, _, _, _)
\* the loop of parsePO over the lines from the i-th on
PoLines(lines, i, st, at) ==
  IF i > Len(lines) THEN st
  ELSE PoLines(lines, i + 1, PoLine(st, Trim(lines[i]), at), at)

\* parsePO(content, fileName)
parsePO(text, at) ==
  DecodedUnits(
    saveUnit(PoLines(SplitLines(text), 1,
                     [ msgid |-> <<>>, msgstr |-> <<>>, context |-> <<>>,
                       notes |-> <<>>, inMsgid |-> FALSE, inMsgstr |-> FALSE,
                       units |-> <<>> ], at), at).units,
    IF EndsWith(at[1], <<".","p","o","t">>) THEN "pot" ELSE "po", at, Len(text))

\* the unit parseStrings pushes for a line that matches
\* /^"([^"]*)"\s*=\s*"([^"]*)";$/, q2 being the position of the second quote
StringsUnit(line, q2, units, at) ==
  LET eq == TrimStartPos(line, q2 + 1)
      q3 == TrimStartPos(line, eq + 1)
      q4 == IndexFrom(line, "\"", q3 + 1)
  IN
  IF /\ q2 # 0
     /\ eq <= Len(line) /\ line[eq] = "="
     /\ q3 <= Len(line) /\ line[q3] = "\""
     /\ q4 # 0 /\ q4 + 1 = Len(line) /\ line[q4 + 1] = ";"
  THEN << TranslationUnit(generateId(at[2], at[3] + Len(units)),
                          Slice(line, 2, q2 - 1), Slice(line, 2, q2 - 1),
                          Slice(line, q3 + 1, q4 - 1), <<>>, at[1],
                          Len(units) + 1) >>
  ELSE <<>>

RECURSIVE StringsLines(_, _, _, _)
\* the loop of parseStrings over the lines from the i-th on
StringsLines(lines, i, units, at) ==
  IF i > Len(lines) THEN units
  ELSE StringsLines(lines, i + 1,
         units \o (IF StartsWith(Trim(lines[i]), <<"\"">>)
                   THEN StringsUnit(Trim(lines[i]),
                                    IndexFrom(Trim(lines[i]), "\"", 2), units, at)
                   ELSE <<>>),
         at)

\* parseStrings(content, fileName)
parseStrings(text, at) ==
  DecodedUnits(StringsLines(SplitLines(text), 1, <<>>, at), "strings", at, Len(text))

\* parseYamlLine: /^(\s*)([\w-]+):\s*(.*)$/ gives <<[key, value, newIndent]>>
\* or <<>> (null); n and m are the lengths of groups 1 and 2
parseYamlLine(line, n, m) ==
  LET rest == TrimStartPos(line, n + m + 2)
  IN
  IF /\ m > 0
     /\ n + m + 1 <= Len(line) /\ line[n + m + 1] = ":"
     /\ \A i \in rest..Len(line) : line[i] \notin LineTerminators
  THEN << [ key |-> Slice(line, n + 1, n + m),
            value |-> Trim(Slice(line, rest, Len(line))),
            newIndent |-> n ] >>
  ELSE <<>>

\* the key stack after while (keyStack.length > newIndent / 2) keyStack.pop()
PopTo(keyStack, newIndent) ==
  IF 2 * Len(keyStack) > newIndent
  THEN Slice(keyStack, 1, newIndent \div 2)
  ELSE keyStack

\* the body of the loop of parseYAML for line i (0-based) once it is parsed:
\* st holds keyStack and units
YamlLine(st, parsed, i, at) ==
  IF parsed = <<>> THEN st
  ELSE IF parsed[1].value # <<>>
  THEN [ keyStack |-> PopTo(st.keyStack, parsed[1].newIndent),
         units |-> Append(st.units,
           [ TranslationUnit(generateId(at[2], at[3] + Len(st.units)),
               Join(Append(PopTo(st.keyStack, parsed[1].newIndent), parsed[1].key),
                    <<".">>),
               parsed[1].value, <<>>, <<>>, at[1], Len(st.units) + 1)
             EXCEPT !.lineNumber = << i + 1 >> ]) ]
  ELSE [ keyStack |-> Append(PopTo(st.keyStack, parsed[1].newIndent), parsed[1].key),
         units |-> st.units ]

\* the lengths of groups 1 and 2 of the pattern on a line
YamlIndent(line) == RunLen(Cls(WhiteSpace, 0, -1), line, 1, 0)

YamlKeyLen(line, n) == RunLen(Cls(WordChar \cup {"-"}, 1, -1), line, n + 1, 0)

RECURSIVE YamlLines(_, _, _, _)
\* the loop of parseYAML over the lines from the i-th on (1-based)
YamlLines(lines, i, st, at) ==
  IF i > Len(lines) THEN st
  ELSE YamlLines(lines, i + 1,
         YamlLine(st,
                  parseYamlLine(lines[i], YamlIndent(lines[i]),
                                YamlKeyLen(lines[i], YamlIndent(lines[i]))),
                  i - 1, at),
         at)

\* parseYAML(content, fileName)
parseYAML(text, at) ==
  DecodedUnits(YamlLines(SplitLines(text), 1,
                         [ keyStack |-> <<>>, units |-> <<>> ], at).units,
               "yaml", at, Len(text))

\* .replace(/\\n/g, '\n').replace(/\\t/g, '\t').replace(/\\\\/g, '\\')
UnescapeProperty(s) ==
  ReplaceAll(<< Lit("\\"), Lit("\\") >>,
    ReplaceAll(<< Lit("\\"), Lit("t") >>,
      ReplaceAll(<< Lit("\\"), Lit("n") >>, s, <<"\n">>), <<"\t">>), <<"\\">>)

\* the unit parseProperties pushes for the trimmed line i (0-based), eq
\* being the position of its first '=' (0: none)
PropertyUnit(line, eq, i, units, at) ==
  IF line = <<>> \/ line[1] \in {"#", "!"} \/ eq <= 1 THEN <<>>
  ELSE << [ TranslationUnit(generateId(at[2], at[3] + Len(units)),
              Trim(Slice(line, 1, eq - 1)),
              UnescapeProperty(Trim(Slice(line, eq + 1, Len(line)))),
              <<>>, <<>>, at[1], Len(units) + 1)
            EXCEPT !.lineNumber = << i + 1 >> ] >>

RECURSIVE PropertyLines(_, _, _, _)
\* the loop of parseProperties over the lines from the i-th on (1-based)
PropertyLines(lines, i, units, at) ==
  IF i > Len(lines) THEN units
  ELSE PropertyLines(lines, i + 1,
         units \o PropertyUnit(Trim(lines[i]), IndexFrom(Trim(lines[i]), "=", 1),
                               i - 1, units, at),
         at)

\* parseProperties(content, fileName)
parseProperties(text, at) ==
  DecodedUnits(PropertyLines(SplitLines(text), 1, <<>>, at),
               "properties", at, Len(text))

RECURSIVE CsvChars(_, _, _, _, _, _)
\* the loop of parseCSVLine over the characters from the i-th on, and the
\* push after it.  A quote met inside quotes is taken for an escaped quote
\* when the character after the FIRST quote of the line is a quote
CsvChars(line, delimiter, i, current, inQuotes, fields) ==
  IF i > Len(line) THEN Append(fields, Trim(current))
  ELSE IF line[i] = "\""
  THEN IF /\ inQuotes
          /\ IndexFrom(line, "\"", 1) + 1 <= Len(line)
          /\ line[IndexFrom(line, "\"", 1) + 1] = "\""
       THEN CsvChars(line, delimiter, i + 1, Append(current, "\""), inQuotes, fields)
       ELSE CsvChars(line, delimiter, i + 1, current, ~inQuotes, fields)
  ELSE IF line[i] = delimiter /\ ~inQuotes
  THEN CsvChars(line, delimiter, i + 1, <<>>, inQuotes,
                Append(fields, Trim(current)))
  ELSE CsvChars(line, delimiter, i + 1, Append(current, line[i]), inQuotes, fields)

\* parseCSVLine(line, delimiter)
parseCSVLine(line, delimiter) == CsvChars(line, delimiter, 1, <<>>, FALSE, <<>>)

\* the unit parseCSV pushes for line i (0-based) split into columns
CsvUnit(columns, i, units, at) ==
  IF Len(columns) < 2 THEN <<>>
  ELSE << [ TranslationUnit(generateId(at[2], at[3] + Len(units)),
              columns[1], columns[2],
              IF Len(columns) >= 3 THEN columns[3] ELSE <<>>,
              <<>>, at[1], Len(units) + 1)
            EXCEPT !.lineNumber = << i + 1 >> ] >>

RECURSIVE CsvLines(_, _, _, _, _)
\* the loop of parseCSV over the lines from the i-th on (1-based)
CsvLines(lines, delimiter, i, units, at) ==
  IF i > Len(lines) THEN units
  ELSE CsvLines(lines, delimiter, i + 1,
         units \o (IF Trim(lines[i]) = <<>> THEN <<>>
                   ELSE CsvUnit(parseCSVLine(Trim(lines[i]), delimiter),
                                i - 1, units, at)),
         at)

\* is the first line a header
HasHeader(first) ==
  \/ Includes(ToLowerCase(first), <<"k","e","y">>)
  \/ Includes(ToLowerCase(first), <<"s","o","u","r","c","e">>)

\* parseCSV(content, fileName, delimiter)
parseCSV(text, delimiter, at) ==
  DecodedUnits(
    CsvLines(SplitLines(text), delimiter,
             IF HasHeader(SplitLines(text)[1]) THEN 2 ELSE 1, <<>>, at),
    IF delimiter = "\t" THEN "tsv" ELSE "csv", at, Len(text))

(***************************************************************************)
(* parseFile: the promise around a FileReader.  at = <<file name, seed and *)
(* position of the random source, time>> is what a decoder reads from its  *)
(* environment.                                                            *)
(***************************************************************************)
RECURSIVE Stringify(_)
RECURSIVE StringifyAll(_, _)
\* the text of the members of an object or the items of an array
StringifyAll(parts, keyed) ==
  IF parts = <<>> THEN <<>>
  ELSE (IF keyed
        THEN <<"\"">> \o Head(parts)[1] \o <<"\"", ":">> \o Stringify(Head(parts)[2])
        ELSE Stringify(Head(parts)))
       \o (IF Len(parts) > 1 THEN IF keyed THEN <<",", "\n">> ELSE <<",">>
           ELSE <<>>)
       \o StringifyAll(Tail(parts), keyed)

\* the text of a JSON document, one member of an object to a line
Stringify(value) ==
  CASE value.t = "str" -> <<"\"">> \o value.v \o <<"\"">>
    [] value.t = "num" -> NumToString(value.v)
    [] value.t = "null" -> <<"n","u","l","l">>
    [] value.t = "arr" -> <<"[">> \o StringifyAll(value.v, FALSE) \o <<"]">>
    [] value.t = "obj" ->
         <<"{", "\n">> \o StringifyAll(value.v, TRUE) \o <<"\n", "}">>

RECURSIVE Serialize(_)
RECURSIVE SerializeAll(_)
SerializeAll(nodes) ==
  IF nodes = <<>> THEN <<>> ELSE Serialize(Head(nodes)) \o SerializeAll(Tail(nodes))

RECURSIVE SerializeAttrs(_)
SerializeAttrs(attrs) ==
  IF attrs = <<>> THEN <<>>
  ELSE <<" ">> \o Head(attrs)[1] \o <<"=", "\"">> \o Head(attrs)[2] \o <<"\"">>
       \o SerializeAttrs(Tail(attrs))

\* the text of an XML document
Serialize(node) ==
  IF node.tag = <<"#text">> THEN node.text
  ELSE <<"<">> \o node.tag \o SerializeAttrs(node.attrs) \o <<">">>
       \o SerializeAll(node.kids)
       \o <<"<", "/">> \o node.tag \o <<">">>

\* e.target.result: the text the reader read
TextOf(content) ==
  CASE content.kind = "json" -> Stringify(content.doc)
    [] content.kind = "xml" -> Serialize(content.doc)
    [] OTHER -> content.doc

\* JSON.parse(content): <<>> when it throws a SyntaxError
JSONparse(content) ==
  IF content.kind = "json" THEN << content.doc >> ELSE <<>>

\* new DOMParser().parseFromString(content, 'application/xml')
parseFromString(content) ==
  IF content.kind = "xml" THEN El(<<"#document">>, <<>>, << content.doc >>)
  ELSE ParserErrorDocument

\* result.type = 'sdlxliff' on what parseXLIFF returned
Retagged(outcome, type) ==
  IF outcome[1] = "return"
  THEN << "return", [ outcome[2] EXCEPT !.type = type ], outcome[3] >>
  ELSE outcome

\* the switch of parseFile on the detected type
Decode(fileType, content, at) ==
  CASE fileType = "json" -> parseJSON(JSONparse(content), Len(TextOf(content)), at)
    [] fileType = "xliff" ->
         parseXLIFF(parseFromString(content), Len(TextOf(content)), at)
    [] fileType = "sdlxliff" ->
         Retagged(parseXLIFF(parseFromString(content), Len(TextOf(content)), at),
                  "sdlxliff")
    [] fileType = "xml" ->
         parseXML(parseFromString(content), Len(TextOf(content)), at)
    [] fileType \in {"po", "pot"} -> parsePO(TextOf(content), at)
    [] fileType = "strings" -> parseStrings(TextOf(content), at)
    [] fileType \in {"yaml", "yml"} -> parseYAML(TextOf(content), at)
    [] fileType = "properties" -> parseProperties(TextOf(content), at)
    [] fileType = "csv" -> parseCSV(TextOf(content), ",", at)
    [] fileType = "tsv" -> parseCSV(TextOf(content), "\t", at)
    [] fileType = "resx" ->
         parseRESX(parseFromString(content), Len(TextOf(content)), at)
    [] fileType = "tmx" ->
         parseTMX(parseFromString(content), Len(TextOf(content)), at)
    [] OTHER ->
         << "throw",
            FileParserError(<<"Parser not implemented for type: ", fileType>>,
                            at[1]) >>

\* what try { switch ... resolve(result) } catch { reject(...) } calls: an
\* error that is no FileParserError is wrapped into one
Settle(outcome, at) ==
  IF outcome[1] = "return"
  THEN << [ call |-> "resolve", value |-> outcome[2], drawn |-> outcome[3] ] >>
  ELSE << [ call |-> "reject",
            value |-> IF outcome[2].name = "FileParserError" THEN outcome[2]
                      ELSE FileParserError(<<"String(error)">>, at[1]),
            drawn |-> 0 ] >>

\* the onload handler without the return after its first reject
onloadFallingThrough(fileType, content, at) ==
  IF fileType = <<>>
  THEN << [ call |-> "reject",
            value |-> FileParserError(<<"Unsupported file type: ">> \o at[1], at[1]),
            drawn |-> 0 ] >>
       \o Settle(Decode("null", content, at), at)
  ELSE Settle(Decode(fileType[1], content, at), at)

\* reader.onload: the calls of resolve and reject it makes, in order
onload(fileType, content, at) ==
  IF fileType = <<>>
  THEN << [ call |-> "reject",
            value |-> FileParserError(<<"Unsupported file type: ">> \o at[1], at[1]),
            drawn |-> 0 ] >>
  ELSE Settle(Decode(fileType[1], content, at), at)

\* reader.onerror
onerror(name) ==
  << [ call |-> "reject",
       value |-> FileParserError(<<"Failed to read file">>, name),
       drawn |-> 0 ] >>

(***************************************************************************)
(* The documents that are read, and the names they are read under.         *)
(***************************************************************************)
\* {"a":{"b":"Hello {name}!","c":"Save"}}
JsonNested ==
  JObj(<< << <<"a">>, JObj(<< << <<"b">>, JStr(<<"H","e","l","l","o"," ","{","n","a","m","e","}","!">>) >>,
                             << <<"c">>, JStr(<<"S","a","v","e">>) >> >>) >> >>)

\* {"translations":{"title":"Home","":"x","menu":{"":"y"}},"title":"Top"}
JsonWrapped ==
  JObj(<< << <<"t","r","a","n","s","l","a","t","i","o","n","s">>,
             JObj(<< << <<"t","i","t","l","e">>, JStr(<<"H","o","m","e">>) >>,
                     << <<>>, JStr(<<"x">>) >>,
                     << <<"m","e","n","u">>, JObj(<< << <<>>, JStr(<<"y">>) >> >>) >> >>) >>,
          << <<"t","i","t","l","e">>, JStr(<<"T","o","p">>) >> >>)

\* {"b":"x","1":"y","list":["p",{"q":"r"}],"n":5,"z":null}
JsonMixed ==
  JObj(<< << <<"b">>, JStr(<<"x">>) >>,
          << <<"1">>, JStr(<<"y">>) >>,
          << <<"l","i","s","t">>, JArr(<< JStr(<<"p">>), JObj(<< << <<"q">>, JStr(<<"r">>) >> >>) >>) >>,
          << <<"n">>, JNum(5) >>,
          << <<"z">>, JNull >> >>)

\* {"a":"x","a":"y","messages":""}
JsonTwice ==
  JObj(<< << <<"a">>, JStr(<<"x">>) >>, << <<"a">>, JStr(<<"y">>) >>,
          << <<"m","e","s","s","a","g","e","s">>, JStr(<<>>) >> >>)

RECURSIVE OnLines(_)
\* the child nodes with a line feed before, between and after them
OnLines(kids) ==
  IF kids = <<>> THEN << Tx(<<"\n">>) >>
  ELSE << Tx(<<"\n">>), Head(kids) >> \o OnLines(Tail(kids))

\* an XLIFF file, each element on a line of its own:
\* <xliff><file source-language="de"><body>
\* <trans-unit id="1"><source>Save</source><target>Sauver</target>
\* <note>menu</note></trans-unit>
\* <trans-unit><source>Open</source></trans-unit></body></file></xliff>
XmlXliff ==
  El(<<"x","l","i","f","f">>, <<>>, OnLines(
     << El(<<"f","i","l","e">>, << << <<"s","o","u","r","c","e","-","l","a","n","g","u","a","g","e">>, <<"d","e">> >> >>, OnLines(
           << El(<<"b","o","d","y">>, <<>>, OnLines(
                 << El(<<"t","r","a","n","s","-","u","n","i","t">>, << << <<"i","d">>, <<"1">> >> >>, OnLines(
                       << El(<<"s","o","u","r","c","e">>, <<>>, << Tx(<<"S","a","v","e">>) >>),
                          El(<<"t","a","r","g","e","t">>, <<>>, << Tx(<<"S","a","u","v","e","r">>) >>),
                          El(<<"n","o","t","e">>, <<>>, << Tx(<<"m","e","n","u">>) >>) >>)),
                    El(<<"t","r","a","n","s","-","u","n","i","t">>, <<>>, OnLines(
                       << El(<<"s","o","u","r","c","e">>, <<>>, << Tx(<<"O","p","e","n">>) >>) >>)) >>)) >>)) >>))

\* an Android resource file:
\* <resources><string name="app">App</string>
\* <string>My <b>App</b></string>
\* <string-array name="days"><item>Mon</item><item>Tue</item></string-array>
\* </resources>
XmlAndroid ==
  El(<<"r","e","s","o","u","r","c","e","s">>, <<>>, OnLines(
     << El(<<"s","t","r","i","n","g">>, << << <<"n","a","m","e">>, <<"a","p","p">> >> >>, << Tx(<<"A","p","p">>) >>),
        El(<<"s","t","r","i","n","g">>, <<>>,
           << Tx(<<"M","y"," ">>), El(<<"b">>, <<>>, << Tx(<<"A","p","p">>) >>) >>),
        El(<<"s","t","r","i","n","g","-","a","r","r","a","y">>, << << <<"n","a","m","e">>, <<"d","a","y","s">> >> >>, OnLines(
           << El(<<"i","t","e","m">>, <<>>, << Tx(<<"M","o","n">>) >>),
              El(<<"i","t","e","m">>, <<>>, << Tx(<<"T","u","e">>) >>) >>)) >>))

\* a RESX file:
\* <root><data name="Title"><value>Home</value><comment>top</comment></data>
\* <data><value>x</value></data></root>
XmlResx ==
  El(<<"r","o","o","t">>, <<>>, OnLines(
     << El(<<"d","a","t","a">>, << << <<"n","a","m","e">>, <<"T","i","t","l","e">> >> >>, OnLines(
           << El(<<"v","a","l","u","e">>, <<>>, << Tx(<<"H","o","m","e">>) >>),
              El(<<"c","o","m","m","e","n","t">>, <<>>, << Tx(<<"t","o","p">>) >>) >>)),
        El(<<"d","a","t","a">>, <<>>, << El(<<"v","a","l","u","e">>, <<>>, << Tx(<<"x">>) >>) >>) >>))

\* a TMX file:
\* <tmx><body><tu id="t1"><tuv xml:lang="fr"><seg>Sauver</seg></tuv>
\* <tuv xml:lang="en"><seg>Save</seg></tuv></tu>
\* <tu><tuv lang="de"><seg>Tor</seg></tuv><tuv><seg>Gate</seg></tuv></tu>
\* </body></tmx>
XmlTmx ==
  El(<<"t","m","x">>, <<>>, OnLines(
     << El(<<"b","o","d","y">>, <<>>, OnLines(
           << El(<<"t","u">>, << << <<"i","d">>, <<"t","1">> >> >>, OnLines(
                 << El(<<"t","u","v">>, << << <<"x","m","l",":","l","a","n","g">>, <<"f","r">> >> >>, OnLines(
                       << El(<<"s","e","g">>, <<>>, << Tx(<<"S","a","u","v","e","r">>) >>) >>)),
                    El(<<"t","u","v">>, << << <<"x","m","l",":","l","a","n","g">>, <<"e","n">> >> >>, OnLines(
                       << El(<<"s","e","g">>, <<>>, << Tx(<<"S","a","v","e">>) >>) >>)) >>)),
              El(<<"t","u">>, <<>>, OnLines(
                 << El(<<"t","u","v">>, << << <<"l","a","n","g">>, <<"d","e">> >> >>, OnLines(
                       << El(<<"s","e","g">>, <<>>, << Tx(<<"T","o","r">>) >>) >>)),
                    El(<<"t","u","v">>, <<>>, OnLines(
                       << El(<<"s","e","g">>, <<>>, << Tx(<<"G","a","t","e">>) >>) >>)) >>)) >>)) >>))

\* a PO catalogue: an entry with a context, an entry with a note and a
\* continued msgid, and an entry without msgid
TextPo ==
  Join(<< <<"m","s","g","c","t","x","t"," ","\"","m","e","n","u","\"">>, <<"m","s","g","i","d"," ","\"","S","a","v","e","\"">>, <<"m","s","g","s","t","r"," ","\"","S","a","u","v","e","r","\"">>, <<>>,
          <<"#","."," ","s","h","o","w","n"," ","o","n"," ","s","t","a","r","t">>, <<"m","s","g","i","d"," ","\"","\"">>, <<"\"","O","p","e","n","\"">>, <<"m","s","g","s","t","r"," ","\"","\"">>,
          <<"m","s","g","s","t","r"," ","\"","x","\"">> >>, <<"\n">>)

\* a .strings file
TextStrings ==
  Join(<< <<"/","*"," ","c"," ","*","/">>, <<"\"","\""," ","="," ","\"","v","a","l","u","e","\"",";">>, <<" "," ","\"","t","i","t","l","e","\"","=","\"","T","i","t","r","e","\"",";"," "," ">>,
          <<"\"","b","a","d","\""," ","="," ","\"","x","\"">> >>, <<"\n">>)

\* a YAML file
TextYaml ==
  Join(<< <<"m","e","n","u",":">>, <<" "," ","s","a","v","e",":"," ","S","a","v","e">>, <<" "," ","f","i","l","e",":">>, <<" "," "," "," ","o","p","e","n",":"," ","O","p","e","n">>,
          <<"t","i","t","l","e",":"," ","H","o","m","e">>, <<"-"," ","i","t","e","m">> >>, <<"\n">>)

\* a .properties file
TextProperties ==
  Join(<< <<"#"," ","c">>, <<"s","a","v","e","=","S","a","v","e">>, <<"=","x">>, <<" ","o","p","e","n"," ","="," ","O","p","e","n","\\","n"," ">>, <<"n","o","n","e">> >>,
       <<"\n">>)

\* a CSV file with a header
TextCsv ==
  Join(<< <<"k","e","y",",","s","o","u","r","c","e",",","t","a","r","g","e","t">>, <<",","S","a","v","e",",","S","a","u","v","e","r">>, <<"o","p","e","n",",","\"","O","p","e","n",","," ","n","o","w","\"">>,
          <<>>, <<"o","n","e">> >>, <<"\n">>)

\* a TSV file without a header
TextTsv ==
  Join(<< <<"s","a","v","e","\t","S","a","v","e","\t","S","a","u","v","e","r">>, <<"\"","\"","\t","x">> >>, <<"\n">>)

\* {"b":"x","1":"y","":{"c":"z"}}
JsonOrdered ==
  JObj(<< << <<"b">>, JStr(<<"x">>) >>,
          << <<"1">>, JStr(<<"y">>) >>,
          << <<>>, JObj(<< << <<"c">>, JStr(<<"z">>) >> >>) >> >>)

\* what the reader may read
Contents ==
  { [ kind |-> "json", doc |-> d ] :
      d \in { JsonNested, JsonWrapped, JsonMixed, JsonTwice, JsonOrdered, JNull,
              JStr(<<"a","b">>), JArr(<< JStr(<<"p">>) >>) } }
  \cup { [ kind |-> "xml", doc |-> d ] :
           d \in { XmlXliff, XmlAndroid, XmlResx, XmlTmx } }
  \cup { [ kind |-> "text", doc |-> d ] :
           d \in { <<>>, TextPo, TextStrings, TextYaml, TextProperties,
                   TextCsv, TextTsv } }

\* the names files are read under: every supported extension in lower and
\* in upper case, an unsupported one, and names without a dot
ParseNames ==
  { <<"a">> \o ex :
      ex \in { SUPPORTED_FILE_EXTENSIONS[i][1] : i \in DOMAIN SUPPORTED_FILE_EXTENSIONS }
             \cup { ToUpperCase(SUPPORTED_FILE_EXTENSIONS[i][1]) :
                      i \in DOMAIN SUPPORTED_FILE_EXTENSIONS }
             \cup { <<".","t","x","t">> } }
  \cup { <<"c","o","n","s","t","r","u","c","t","o","r">>, <<"R","E","A","D","M","E">> }

ParseInit ==
  /\ file = NoFile
  /\ config = DEFAULT_CONFIG
  /\ result = <<>>
  /\ history = <<>>
  /\ clock = 0
  /\ rng = [ seed |-> 0, drawn |-> 0 ]
  /\ edited = FALSE
  /\ fileName \in ParseNames
  /\ detected = <<"pending">>
  /\ reader \in [ state : {"reading"}, content : Contents ]
  /\ promise = <<>>
  /\ NoSession

\* the load event of the reader: the whole onload handler
OnLoad ==
  /\ reader.state = "reading"
  /\ detected' = detectFileType(fileName)
  /\ promise' = promise \o onload(detected', reader.content,
                                  << fileName, rng.seed, rng.drawn, clock >>)
  /\ rng' = [ rng EXCEPT !.drawn = @ + promise'[1].drawn ]
  /\ reader' = [ reader EXCEPT !.state = "done" ]
  /\ UNCHANGED <<file, config, result, history, clock, edited, fileName,
                 files, results, glossary, pending>>

\* the error event of the reader
OnError ==
  /\ reader.state = "reading"
  /\ promise' = promise \o onerror(fileName)
  /\ reader' = [ reader EXCEPT !.state = "done" ]
  /\ UNCHANGED <<file, config, result, history, clock, rng, edited, fileName,
                 detected, files, results, glossary, pending>>

\* handleFileUpload after await parseFile(file): the file is kept and
\* analysed at once
Uploaded ==
  /\ promise # <<>> /\ promise[1].call = "resolve"
  /\ history = <<>>
  /\ file' = promise[1].value
  /\ result' = << runQA(promise[1].value, config, rng, clock) >>
  /\ history' = Append(history, [ config |-> config, result |-> result'[1] ])
  /\ clock' = clock + 1
  /\ rng' = [ rng EXCEPT !.drawn = @ + Len(result'[1].issues) ]
  /\ files' = Append(files, promise[1].value)
  /\ UNCHANGED <<config, edited, fileName, detected, reader, promise,
                 results, glossary, pending>>

ParseNext == OnLoad \/ OnError \/ Uploaded

SpecParse == ParseInit /\ [][ParseNext]_vars

(***************************************************************************)
(* Analyses of files whose units exercise the comparisons between units    *)
(* and the rules on white space and alphanumeric runs.                     *)
(***************************************************************************)
\* 'a a'
TxtAA == <<"a"," ","a">>

\* 'a'
TxtA == <<"a">>

\* 'a b'
TxtAB == <<"a"," ","b">>

\* 'a\r\nb'
TxtACrLfB == <<"a","\r","\n","b">>

\* ' Save '
TxtPaddedSave == <<" ","S","a","v","e"," ">>

\* ' Sauver'
TxtLedSauver == <<" ","S","a","u","v","e","r">>

\* 'Sauver le fichier '
TxtSauverTrailing == <<"S","a","u","v","e","r"," ","l","e"," ","f","i","c","h","i","e","r"," ">>

\* (source, target) of the units of these files
RulePairs ==
  { <<TxtAA, TxtA>>, <<TxtAB, TxtACrLfB>>, <<TxtPaddedSave, TxtLedSauver>>,
    <<TxtSaveFile, TxtSauverTrailing>>, <<TxtSaveFile, TxtEmpty>>,
    <<TxtEmpty, TxtA>>, <<TxtSure, TxtEmpty>> }

RuleFiles ==
  { File(pairs) : pairs \in UNION { [1..n -> RulePairs] : n \in 0..MaxUnits } }

RulesInit ==
  /\ file \in RuleFiles
  /\ config = DEFAULT_CONFIG
  /\ result = <<>>
  /\ history = <<>>
  /\ clock = 0
  /\ rng = [ seed |-> 0, drawn |-> 0 ]
  /\ edited = FALSE
  /\ NoDetection
  /\ NoParsing
  /\ NoSession

SpecRules == RulesInit /\ [][Next]_vars

(***************************************************************************)
(* Analyses of one-unit files under several glossaries: the rules on       *)
(* placeholders, HTML tags and glossary terms.  The letter e with an acute *)
(* accent is the element "U+00E9", which no character class holds.         *)
(***************************************************************************)
\* 'Hello %s, you have %d messages.'
TxtHello == <<"H","e","l","l","o"," ","%","s",","," ","y","o","u"," ","h","a","v","e"," ","%","d"," ","m","e","s","s","a","g","e","s",".">>

\* 'Bonjour %s, vous avez messages.'
TxtBonjour == <<"B","o","n","j","o","u","r"," ","%","s",","," ","v","o","u","s"," ","a","v","e","z"," ","m","e","s","s","a","g","e","s",".">>

\* '{{name}}'
TxtDoubleBrace == <<"{","{","n","a","m","e","}","}">>

\* '{name}'
TxtSingleBrace == <<"{","n","a","m","e","}">>

\* '{name} %s :id'
TxtThreeKinds == <<"{","n","a","m","e","}"," ","%","s"," ",":","i","d">>

\* ':id %s {name}'
TxtThreeKindsMoved == <<":","i","d"," ","%","s"," ","{","n","a","m","e","}">>

\* 'Click <b>here</b>'
TxtClickHere == <<"C","l","i","c","k"," ","<","b",">","h","e","r","e","<","/","b",">">>

\* 'Cliquez <b>ici'
TxtCliquezOpen == <<"C","l","i","q","u","e","z"," ","<","b",">","i","c","i">>

\* 'Cliquez <b>ici</b>'
TxtCliquezIci == <<"C","l","i","q","u","e","z"," ","<","b",">","i","c","i","<","/","b",">">>

\* 'Cliquez <b>ici</b >'
TxtCliquezSpaced == <<"C","l","i","q","u","e","z"," ","<","b",">","i","c","i","<","/","b"," ",">">>

\* 'Cliquez ici</b>'
TxtCliquezClose == <<"C","l","i","q","u","e","z"," ","i","c","i","<","/","b",">">>

\* '<B>i<br>c<img/><i>i</i></b>'
TxtCliquezNested == <<"<","B",">","i","<","b","r",">","c","<","i","m","g","/",">","<","i",">","i","<","/","i",">","<","/","b",">">>

\* '<b><i>ici</b></i>'
TxtCliquezCrossed == <<"<","b",">","<","i",">","i","c","i","<","/","b",">","<","/","i",">">>

\* 'Ouvrir document'
TxtOuvrirDocument == <<"O","u","v","r","i","r"," ","d","o","c","u","m","e","n","t">>

\* 'Ouvrir le Fichier'
TxtOuvrirFichier == <<"O","u","v","r","i","r"," ","l","e"," ","F","i","c","h","i","e","r">>

\* 'Hot coffee'
TxtHotCoffee == <<"H","o","t"," ","c","o","f","f","e","e">>

\* 'cafe chaud' with the accent
TxtCafeChaud == <<"c","a","f","U+00E9"," ","c","h","a","u","d">>

PhrasePairs ==
  { <<TxtHello, TxtBonjour>>, <<TxtDoubleBrace, TxtSingleBrace>>,
    <<TxtThreeKinds, TxtThreeKindsMoved>>,
    <<TxtClickHere, TxtCliquezOpen>>, <<TxtClickHere, TxtCliquezIci>>,
    <<TxtClickHere, TxtCliquezSpaced>>, <<TxtClickHere, TxtCliquezClose>>,
    <<TxtClickHere, TxtCliquezNested>>, <<TxtClickHere, TxtCliquezCrossed>>,
    <<TxtOpenFile, TxtOuvrirDocument>>, <<TxtOpenFile, TxtOuvrirFichier>>,
    <<TxtHotCoffee, TxtCafeChaud>> }

\* the empty file and the files of one unit
PhraseFiles == { File(<<>>) } \cup { File(<<pair>>) : pair \in PhrasePairs }

\* no glossary, the one of one term, one of three terms of which the last
\* has no translation, and one whose translation ends in an accented letter
PhraseGlossaries ==
  { <<>>, Glossary,
    << [ source |-> <<"o","p","e","n">>, target |-> <<"o","u","v","r","e","z">> ],
       [ source |-> TxtFile, target |-> TxtFichier ],
       [ source |-> <<"f","i","l","e">>, target |-> <<>> ] >>,
    << [ source |-> <<"c","o","f","f","e","e">>, target |-> <<"c","a","f","U+00E9">> ] >> }

PhrasesInit ==
  /\ file \in PhraseFiles
  /\ config \in { [ DEFAULT_CONFIG EXCEPT !.glossary = g ] : g \in PhraseGlossaries }
  /\ result = <<>>
  /\ history = <<>>
  /\ clock = 0
  /\ rng = [ seed |-> 0, drawn |-> 0 ]
  /\ edited = FALSE
  /\ NoDetection
  /\ NoParsing
  /\ NoSession

SpecPhrases == PhrasesInit /\ [][Next]_vars

(***************************************************************************)
(* The glossary loaders.  A term is [source, target] with, from a sheet or *)
(* a CSV/TSV file, a context of length 0 or 1.  parseGlossaryFile gives    *)
(* <<"return", terms>> or <<"throw", message>>.  A workbook is taken as    *)
(* the rows of cells that XLSX.utils.sheet_to_json gives for its first     *)
(* sheet, an empty cell being <<>>.                                        *)
(***************************************************************************)
RECURSIVE ExcelRows(_, _, _)
\* the loop of parseExcelGlossary over the rows from the i-th on
ExcelRows(json, i, terms) ==
  IF i > Len(json) THEN terms
  ELSE LET row == json[i] IN
       ExcelRows(json, i + 1,
         IF Len(row) >= 2 /\ row[1] # <<>> /\ row[2] # <<>>
         THEN Append(terms,
                [ source |-> Trim(row[1]), target |-> Trim(row[2]),
                  context |-> IF Len(row) >= 3 /\ row[3] # <<>>
                              THEN << Trim(row[3]) >> ELSE <<>> ])
         ELSE terms)

\* the onload handler of parseExcelGlossary, from the rows on
parseExcelGlossary(json) ==
  ExcelRows(json,
            IF /\ Len(json) > 0
               /\ \E c \in DOMAIN json[1] :
                    ToLowerCase(json[1][c]) \in { <<"s","o","u","r","c","e">>, <<"t","e","r","m">> }
            THEN 2 ELSE 1,
            <<>>)

RECURSIVE GlossaryTuvTexts(_, _, _)
\* the loop of parseTMXGlossary over the tuv elements of one tu: st is
\* <<source, target>>
GlossaryTuvTexts(tuvs, j, st) ==
  IF j > Len(tuvs) THEN st
  ELSE
    LET lang == IF getAttribute(tuvs[j], <<"x","m","l",":","l","a","n","g">>) # <<>>
                THEN getAttribute(tuvs[j], <<"x","m","l",":","l","a","n","g">>)
                ELSE getAttribute(tuvs[j], <<"l","a","n","g">>)
        text == FirstText(tuvs[j], <<"s","e","g">>)
    IN GlossaryTuvTexts(tuvs, j + 1,
         IF StartsWith(ToLowerCase(lang), <<"e","n">>) \/ j = 1
         THEN IF st[1] = <<>> THEN << text, st[2] >>
              ELSE IF j > 1 THEN << st[1], text >>
              ELSE st
         ELSE << st[1], text >>)

\* what parseTMXGlossary assigns for one tu
GlossaryTu(tu) ==
  GlossaryTuvTexts(getElementsByTagName(tu, <<"t","u","v">>), 1, << <<>>, <<>> >>)

RECURSIVE GlossaryTus(_, _, _)
\* the loop of parseTMXGlossary over the tu elements
GlossaryTus(tuEntries, i, terms) ==
  IF i > Len(tuEntries) THEN terms
  ELSE GlossaryTus(tuEntries, i + 1,
         IF GlossaryTu(tuEntries[i])[1] # <<>> /\ GlossaryTu(tuEntries[i])[2] # <<>>
         THEN Append(terms, [ source |-> GlossaryTu(tuEntries[i])[1],
                              target |-> GlossaryTu(tuEntries[i])[2] ])
         ELSE terms)

\* the onload handler of parseTMXGlossary, from the parsed document on
parseTMXGlossary(doc) == GlossaryTus(getElementsByTagName(doc, <<"t","u">>), 1, <<>>)

\* c.trim().replace(/^"|"$/g, '')
Unquoted(c) ==
  LET t == Trim(c)
      from == IF t # <<>> /\ t[1] = "\"" THEN 2 ELSE 1
      to == IF Len(t) >= from /\ t[Len(t)] = "\"" THEN Len(t) - 1 ELSE Len(t)
  IN Slice(t, from, to)

\* line.split(delimiter).map(c => c.trim().replace(/^"|"$/g, ''))
GlossaryColumns(line, delimiter) ==
  LET cells == Split(<< Lit(delimiter) >>, line)
  IN [ i \in DOMAIN cells |-> Unquoted(cells[i]) ]

RECURSIVE CsvGlossaryLines(_, _, _, _)
\* the loop of parseCSVGlossary over the lines from the i-th on
CsvGlossaryLines(lines, i, delimiter, terms) ==
  IF i > Len(lines) THEN terms
  ELSE CsvGlossaryLines(lines, i + 1, delimiter,
         IF Trim(lines[i]) # <<>>
            /\ Len(GlossaryColumns(Trim(lines[i]), delimiter)) >= 2
         THEN Append(terms,
                [ source |-> GlossaryColumns(Trim(lines[i]), delimiter)[1],
                  target |-> GlossaryColumns(Trim(lines[i]), delimiter)[2],
                  context |-> IF Len(GlossaryColumns(Trim(lines[i]), delimiter)) >= 3
                              THEN << GlossaryColumns(Trim(lines[i]), delimiter)[3] >>
                              ELSE <<>> ])
         ELSE terms)

\* the onload handler of parseCSVGlossary, from the text on
parseCSVGlossary(text, name) ==
  CsvGlossaryLines(SplitLines(text),
                   IF \/ Includes(ToLowerCase(SplitLines(text)[1]), <<"s","o","u","r","c","e">>)
                      \/ Includes(ToLowerCase(SplitLines(text)[1]), <<"t","e","r","m">>)
                   THEN 2 ELSE 1,
                   IF EndsWith(name, <<".","t","s","v">>) THEN "\t" ELSE ",",
                   <<>>)

\* the extensions handleFileUpload tries as a glossary
GlossaryExtensions == { <<".","x","l","s","x">>, <<".","x","l","s">>, <<".","t","m","x">>, <<".","c","s","v">>, <<".","t","s","v">> }

\* file.name.toLowerCase().substring(file.name.lastIndexOf('.'))
GlossaryExtension(name) == Substring(ToLowerCase(name), LastIndexOfDot(name))

\* parseGlossaryFile(file)
parseGlossaryFile(name, content) ==
  IF GlossaryExtension(name) \in { <<".","x","l","s","x">>, <<".","x","l","s">> }
  THEN << "return", parseExcelGlossary(content.doc) >>
  ELSE IF GlossaryExtension(name) = <<".","t","m","x">>
  THEN << "return", parseTMXGlossary(parseFromString(content)) >>
  ELSE IF GlossaryExtension(name) \in { <<".","c","s","v">>, <<".","t","s","v">> }
  THEN << "return", parseCSVGlossary(TextOf(content), name) >>
  ELSE << "throw", <<"Unsupported glossary format: ">> \o GlossaryExtension(name) >>

(***************************************************************************)
(* handleFileUpload for one file: the file is first tried as a glossary,   *)
(* then, when its name is that of a translation file, read by parseFile.   *)
(* The reader is "chosen" when the handler is called.                      *)
(***************************************************************************)
\* the terms the first loop of handleFileUpload gets from the file: none
\* when the extension is not tried or the loader throws
TermsTried(name, content) ==
  IF GlossaryExtension(name) \in GlossaryExtensions
  THEN parseGlossaryFile(name, content)[2]
  ELSE <<>>

\* setGlossary(terms), under if (terms.length > 0)
GlossarySet(terms, held) == IF Len(terms) > 0 THEN terms ELSE held

\* setConfig(prev => ({ ...prev, glossary: terms })), under the same test
ConfigSet(terms, prev) ==
  IF Len(terms) > 0 THEN [ prev EXCEPT !.glossary = terms ] ELSE prev

\* the first loop of handleFileUpload and the test that opens the second
GlossaryTried ==
  /\ reader.state = "chosen"
  /\ glossary' = GlossarySet(TermsTried(fileName, reader.content), glossary)
  /\ config' = ConfigSet(TermsTried(fileName, reader.content), config)
  /\ reader' = [ reader EXCEPT
                   !.state = IF detectFileType(fileName) # <<>>
                             THEN "reading" ELSE "skipped" ]
  /\ UNCHANGED <<file, result, history, clock, rng, edited, fileName, detected,
                 promise, files, results, pending>>

UploadNext == GlossaryTried \/ OnLoad \/ OnError \/ Uploaded

\* handleFileUpload is called with the file of the given name and content
UploadInit(name, content) ==
  /\ file = NoFile
  /\ config = DEFAULT_CONFIG
  /\ result = <<>>
  /\ history = <<>>
  /\ clock = 0
  /\ rng = [ seed |-> 0, drawn |-> 0 ]
  /\ edited = FALSE
  /\ fileName = name
  /\ detected = <<"pending">>
  /\ reader = [ state |-> "chosen", content |-> content ]
  /\ promise = <<>>
  /\ NoSession

(***************************************************************************)
(* Documents written out from their parts and then read by parseFile: PO   *)
(* catalogues made of entries.                                             *)
(***************************************************************************)
\* an entry of a catalogue: the #. comments before it, the msgctxt if any
\* and the msgid and msgstr, each as its quoted pieces, one per line
PoEntry(notes, msgctxt, msgid, msgstr) ==
  [ notes |-> notes, msgctxt |-> msgctxt, msgid |-> msgid, msgstr |-> msgstr ]

PoEntries ==
  { PoEntry(<<>>, <<>>, << <<"S","a","v","e">> >>, << <<"S","a","u","v","e","r">> >>),
    PoEntry(<< <<"F","i","l","e"," ","m","e","n","u">> >>, << << <<"m","e","n","u">> >> >>, << <<"O","p","e","n">> >>, << <<"O","u","v","r","i","r">> >>),
    PoEntry(<< <<"f","i","r","s","t">>, <<"s","e","c","o","n","d">> >>, <<>>, << <<>>, <<"S","a","v","e"," ">>, <<"f","i","l","e">> >>,
            << <<"S","a","u","v","e","r"," ">>, <<"l","e"," ","f","i","c","h","i","e","r">> >>),
    PoEntry(<<>>, <<>>, << <<>> >>, << <<>>, <<"L","a","n","g","u","a","g","e",":"," ","f","r">> >>),
    PoEntry(<<>>, << << <<>>, <<"t","o","o","l">>, <<"b","a","r">> >> >>, << <<"O","p","e","n">> >>, << <<>> >>),
    PoEntry(<< <<"t","o","o","l","b","a","r">> >>, <<>>, << <<"O","p","e","n">> >>, << <<"O","u","v","r","i","r">> >>) }

\* keyword "first piece", then one quoted line per further piece
PoField(keyword, pieces) ==
  << keyword \o <<" ", "\"">> \o pieces[1] \o <<"\"">> >>
  \o [ i \in 1..(Len(pieces) - 1) |-> <<"\"">> \o pieces[i + 1] \o <<"\"">> ]

\* the lines of an entry, closed by an empty line
PoEntryLines(entry) ==
  [ i \in DOMAIN entry.notes |-> <<"#", ".", " ">> \o entry.notes[i] ]
  \o (IF entry.msgctxt = <<>> THEN <<>>
      ELSE PoField(<<"m","s","g","c","t","x","t">>, entry.msgctxt[1]))
  \o PoField(<<"m","s","g","i","d">>, entry.msgid)
  \o PoField(<<"m","s","g","s","t","r">>, entry.msgstr)
  \o << <<>> >>

RECURSIVE PoText(_)
\* the catalogue of the entries
PoText(entries) ==
  IF entries = <<>> THEN <<>>
  ELSE Join(PoEntryLines(Head(entries)), <<"\n">>) \o <<"\n">> \o PoText(Tail(entries))

\* the catalogues of up to MaxUnits entries
PoCatalogues == UNION { [1..n -> PoEntries] : n \in 1..MaxUnits }

\* 'a.po', 'a.pot'
PoNames == { <<"a",".","p","o">>, <<"a",".","p","o","t">> }

PoInit ==
  \E name \in PoNames, entries \in PoCatalogues :
    UploadInit(name, [ kind |-> "text", doc |-> PoText(entries) ])

SpecPo == PoInit /\ [][UploadNext]_vars

(***************************************************************************)
(* CSV and TSV documents of one row, written as RFC 4180 prescribes.       *)
(***************************************************************************)
\* a field as it is written: in double quotes, with every quote doubled,
\* when it holds the delimiter or a quote
CsvField(field, delimiter) ==
  IF \E i \in DOMAIN field : field[i] \in {delimiter, "\""}
  THEN <<"\"">>
       \o Join([ i \in DOMAIN field |->
                   IF field[i] = "\"" THEN <<"\"", "\"">> ELSE << field[i] >> ], <<>>)
       \o <<"\"">>
  ELSE field

\* the row of the fields
CsvRow(fields, delimiter) ==
  Join([ i \in DOMAIN fields |-> CsvField(fields[i], delimiter) ], << delimiter >>)

\* 'Save', 'a, b', 'a<TAB>b', 'say "hi"', '"x"'
CsvValues == { <<"S","a","v","e">>, <<"a",","," ","b">>, <<"a","\t","b">>, <<"s","a","y"," ","\"","h","i","\"">>, <<"\"","x","\"">> }

\* rows of an identifier, a source and a target
CsvRows == { << id, source, target >> :
               id \in { <<"i","d","1">>, <<"i","d"," ","2">> }, source \in CsvValues, target \in CsvValues }

\* 'a.csv', 'a.tsv'
CsvNames == { <<"a",".","c","s","v">>, <<"a",".","t","s","v">> }

\* the delimiter parseFile passes for the name
DelimiterOf(name) == IF name = <<"a",".","t","s","v">> THEN "\t" ELSE ","

CsvInit ==
  \E name \in CsvNames, fields \in CsvRows :
    UploadInit(name, [ kind |-> "text", doc |-> CsvRow(fields, DelimiterOf(name)) ])

SpecCsv == CsvInit /\ [][UploadNext]_vars

(***************************************************************************)
(* YAML documents of nested mappings, two spaces per level, written out    *)
(* from their trees with LF or CRLF line endings.                          *)
(***************************************************************************)
\* a key with its scalar (<<>> when it opens a mapping) and its children
YamlNode(key, value, children) ==
  [ key |-> key, value |-> value, children |-> children ]

YamlItems ==
  { YamlNode(<<"t","i","t","l","e">>, <<"H","o","m","e">>, <<>>),
    YamlNode(<<"s","u","b","-","t","i","t","l","e">>, <<" "," ","S","t","a","r","t"," ","p","a","g","e"," ">>, <<>>),
    YamlNode(<<"m","e","n","u">>, <<>>, << YamlNode(<<"s","a","v","e">>, <<"S","a","v","e">>, <<>>) >>),
    YamlNode(<<"m","e","n","u">>, <<>>,
             << YamlNode(<<"f","i","l","e">>, <<>>, << YamlNode(<<"o","p","e","n">>, <<"O","p","e","n">>, <<>>) >>),
                YamlNode(<<"q","u","i","t">>, <<"Q","u","i","t">>, <<>>) >>),
    YamlNode(<<"e","m","p","t","y">>, <<>>, <<>>) }

\* the documents: one or two top-level keys
YamlTrees == UNION { [1..n -> YamlItems] : n \in {1, 2} }

RECURSIVE YamlText(_, _, _)
\* the text of the nodes at the given depth, every line closed by eol
YamlText(nodes, depth, eol) ==
  IF nodes = <<>> THEN <<>>
  ELSE LET node == Head(nodes) IN
       [ i \in 1..(2 * depth) |-> " " ] \o node.key \o <<":">>
       \o (IF node.value = <<>> THEN <<>> ELSE <<" ">> \o node.value)
       \o eol
       \o YamlText(node.children, depth + 1, eol)
       \o YamlText(Tail(nodes), depth, eol)

\* LF and CRLF
LineEndings == { <<"\n">>, <<"\r", "\n">> }

\* 'a.yaml', 'a.yml'
YamlNames == { <<"a",".","y","a","m","l">>, <<"a",".","y","m","l">> }

YamlInit ==
  \E name \in YamlNames, tree \in YamlTrees, eol \in LineEndings :
    UploadInit(name, [ kind |-> "text", doc |-> YamlText(tree, 0, eol) ])

SpecYaml == YamlInit /\ [][UploadNext]_vars

(***************************************************************************)
(* TMX documents of one translation unit, uploaded as a bundle: the upload *)
(* handler loads the glossary from it and decodes it.                      *)
(***************************************************************************)
\* the variants of a tu: the attribute that names the language (none when
\* <<>>), the language and the text of the segment
TmxVariants ==
  { << <<"x","m","l",":","l","a","n","g">>, <<"e","n">>, <<"S","a","v","e">> >>,
    << <<"x","m","l",":","l","a","n","g">>, <<"f","r">>, <<"S","a","u","v","e","r">> >>,
    << <<"l","a","n","g">>, <<"E","N","-","U","S">>, <<"O","p","e","n">> >>,
    << <<>>, <<>>, <<"T","o","r">> >> }

\* the <tuv> of a variant
TmxTuv(variant) ==
  El(<<"t","u","v">>,
     IF variant[1] = <<>> THEN <<>> ELSE << << variant[1], variant[2] >> >>,
     OnLines(<< El(<<"s","e","g">>, <<>>, << Tx(variant[3]) >>) >>))

\* the document whose only <tu> has the variants
TmxDocument(variants) ==
  El(<<"t","m","x">>, <<>>, OnLines(
     << El(<<"b","o","d","y">>, <<>>, OnLines(
           << El(<<"t","u">>, <<>>,
                 OnLines([ i \in DOMAIN variants |-> TmxTuv(variants[i]) ])) >>)) >>))

\* one, two or three variants, in any order
TmxUnits == UNION { [1..n -> TmxVariants] : n \in {1, 2, 3} }

TmxInit ==
  \E variants \in TmxUnits :
    UploadInit(<<"a",".","t","m","x">>, [ kind |-> "xml", doc |-> TmxDocument(variants) ])

SpecTmx == TmxInit /\ [][UploadNext]_vars

(***************************************************************************)
(* The handlers of the application that wait at an await.  A handler that  *)
(* is called enters pending with what its closure holds: the files,        *)
(* results, config and glossary of the render it was created in.           *)
(***************************************************************************)
Task(handler, name, content) ==
  [ handler |-> handler, name |-> name, content |-> content,
    files |-> files, results |-> results, config |-> config,
    glossary |-> glossary ]

\* pending without its k-th task
Settled(k) == SubSeq(pending, 1, k - 1) \o SubSeq(pending, k + 1, Len(pending))

RECURSIVE RunAll(_, _, _, _, _, _)
\* files.map(f => runQA(f, cfg)), the random source being at drawn
RunAll(held, i, cfg, seed, drawn, now) ==
  IF i > Len(held) THEN <<>>
  ELSE << runQA(held[i], cfg, [ seed |-> seed, drawn |-> drawn ], now) >>
       \o RunAll(held, i + 1, cfg, seed,
                 drawn + Len(runQA(held[i], cfg,
                                   [ seed |-> seed, drawn |-> drawn ], now).issues),
                 now)

RECURSIVE IssuesIn(_)
\* the number of issues of the results
IssuesIn(rs) == IF rs = <<>> THEN 0 ELSE Len(Head(rs).issues) + IssuesIn(Tail(rs))

\* the analyses of the results, each with the configuration it ran under
Analyses(rs, cfg) == [ i \in DOMAIN rs |-> [ config |-> cfg, result |-> rs[i] ] ]

\* the part of handleGlossaryUpload and rerunQA that stores new results
ResultsSet(newResults, cfg) ==
  /\ results' = newResults
  /\ history' = history \o Analyses(newResults, cfg)
  /\ result' = IF newResults = <<>> THEN result ELSE << newResults[Len(newResults)] >>
  /\ rng' = [ rng EXCEPT !.drawn = @ + IssuesIn(newResults) ]
  /\ clock' = clock + 1

\* handleGlossaryUpload after await parseGlossaryFile(file), the loader
\* having returned the terms: with files and results in its closure it
\* analyses these files again
GlossaryReturned(task, terms) ==
  /\ glossary' = terms
  /\ config' = [ config EXCEPT !.glossary = terms ]
  /\ IF Len(task.files) > 0 /\ Len(task.results) > 0
     THEN ResultsSet(RunAll(task.files, 1, [ task.config EXCEPT !.glossary = terms ],
                            rng.seed, rng.drawn, clock),
                     [ task.config EXCEPT !.glossary = terms ])
     ELSE UNCHANGED <<results, history, result, rng, clock>>

\* handleGlossaryUpload from the end of the await on; a loader that throws
\* leaves a toast only
GlossaryLoaded(k) ==
  /\ pending[k].handler = "glossary"
  /\ IF parseGlossaryFile(pending[k].name, pending[k].content)[1] = "return"
     THEN GlossaryReturned(pending[k],
                           parseGlossaryFile(pending[k].name, pending[k].content)[2])
     ELSE UNCHANGED <<glossary, config, results, history, result, rng, clock>>
  /\ pending' = Settled(k)
  /\ UNCHANGED <<file, edited, fileName, detected, reader, promise, files>>

(***************************************************************************)
(* Glossary files, written out from rows of cells as CSV, TSV and as the   *)
(* first sheet of a workbook, and TMX documents.                           *)
(***************************************************************************)
\* 'file' 'fichier' / 'file' '' / '' 'fichier' / ' open ' ' ouvrir ' 'menu' /
\* ' ' 'x'
GlossaryRows ==
  { << <<"f","i","l","e">>, <<"f","i","c","h","i","e","r">> >>, << <<"f","i","l","e">>, <<>> >>, << <<>>, <<"f","i","c","h","i","e","r">> >>,
    << <<" ","o","p","e","n"," ">>, <<" ","o","u","v","r","i","r"," ">>, <<"m","e","n","u">> >>, << <<" ">>, <<"x">> >> }

\* one or two rows
GlossaryTables == UNION { [1..n -> GlossaryRows] : n \in {1, 2} }

\* the rows as lines of cells joined by the delimiter
TableText(rows, delimiter) ==
  Join([ i \in DOMAIN rows |-> Join(rows[i], << delimiter >>) ], <<"\n">>)

\* the glossary file of the given name made of the rows
TableFile(name, rows) ==
  IF GlossaryExtension(name) \in { <<".","x","l","s","x">>, <<".","x","l","s">> }
  THEN [ kind |-> "sheet", doc |-> rows ]
  ELSE [ kind |-> "text",
         doc |-> TableText(rows, IF GlossaryExtension(name) = <<".","t","s","v">>
                                 THEN "\t" ELSE ",") ]

\* 'a.csv', 'a.tsv', 'a.xlsx', 'a.xls'
TableNames == { <<"a",".","c","s","v">>, <<"a",".","t","s","v">>, <<"a",".","x","l","s","x">>, <<"a",".","x","l","s">> }

\* the glossary files: tables, TMX documents of one or two variants, and a
\* file of another kind
GlossaryFiles ==
  { << name, TableFile(name, rows) >> : name \in TableNames, rows \in GlossaryTables }
  \cup { << <<"a",".","t","m","x">>, [ kind |-> "xml", doc |-> TmxDocument(variants) ] >> :
           variants \in { v \in TmxUnits : Len(v) <= 2 } }
  \cup { << <<"a",".","t","x","t">>, [ kind |-> "text", doc |-> <<"f","i","l","e",",","f","i","c","h","i","e","r">> ] >> }

\* handleGlossaryUpload was called with a glossary file and waits for the
\* loader
GlossaryInit ==
  /\ file = NoFile
  /\ config = DEFAULT_CONFIG
  /\ result = <<>>
  /\ history = <<>>
  /\ clock = 0
  /\ rng = [ seed |-> 0, drawn |-> 0 ]
  /\ edited = FALSE
  /\ NoDetection
  /\ NoParsing
  /\ files = <<>> /\ results = <<>> /\ glossary = <<>>
  /\ \E chosen \in GlossaryFiles :
       pending = << [ handler |-> "glossary", name |-> chosen[1],
                      content |-> chosen[2], files |-> <<>>, results |-> <<>>,
                      config |-> DEFAULT_CONFIG, glossary |-> <<>> ] >>

GlossaryNext == \E k \in DOMAIN pending : GlossaryLoaded(k)

SpecGlossary == GlossaryInit /\ [][GlossaryNext]_vars

(***************************************************************************)
(* The application under the actions of its user: a file is uploaded, the  *)
(* files are cleared, a glossary is loaded, the analysis is run again.     *)
(* Every analysis advances the clock, which bounds the handlers started.   *)
(***************************************************************************)
\* the files offered for upload, 'a.po' with one entry, and the glossary
\* files offered, 'a.csv' with one line
OfferedFiles ==
  { << <<"a", ".", "p", "o">>,
       [ kind |-> "text",
         doc |-> PoText(<< PoEntry(<<>>, <<>>, << TxtOpenFile >>, << t >>) >>) ] >> :
      t \in { TxtOuvrirFichier, TxtOuvrirDocument } }

OfferedGlossaries ==
  { << <<"a", ".", "c", "s", "v">>, [ kind |-> "text", doc |-> d ] >> :
      d \in { <<"f", "i", "l", "e", ",", "f", "i", "c", "h", "i", "e", "r">>,
              <<"f", "i", "l", "e", ",", "d", "o", "c", "u", "m", "e", "n", "t">> } }

\* handleFileUpload is called with an offered file
FileChosen ==
  \E offered \in OfferedFiles :
    /\ reader.state = "idle"
    /\ fileName' = offered[1]
    /\ reader' = [ state |-> "chosen", content |-> offered[2] ]
    /\ UNCHANGED <<file, config, result, history, clock, rng, edited, detected,
                   promise, files, results, glossary, pending>>

\* clearAllFiles, on the button of the file list
ClearAllFiles ==
  /\ Len(files) > 0
  /\ files' = <<>>
  /\ results' = <<>>
  /\ glossary' = <<>>
  /\ UNCHANGED <<file, config, result, history, clock, rng, edited, fileName,
                 detected, reader, promise, pending>>

\* handleGlossaryUpload up to await parseGlossaryFile(file)
GlossaryChosen ==
  \E offered \in OfferedGlossaries :
    /\ clock + Len(pending) < MaxRuns
    /\ pending' = Append(pending, Task("glossary", offered[1], offered[2]))
    /\ UNCHANGED <<file, config, result, history, clock, rng, edited, fileName,
                   detected, reader, promise, files, results, glossary>>

\* rerunQA up to the await of its delay
RerunClicked ==
  /\ clock + Len(pending) < MaxRuns
  /\ Len(files) > 0
  /\ pending' = Append(pending, Task("rerun", <<>>, [ kind |-> "text", doc |-> <<>> ]))
  /\ UNCHANGED <<file, config, result, history, clock, rng, edited, fileName,
                 detected, reader, promise, files, results, glossary>>

\* rerunQA after the delay: the files of its closure are analysed
RerunDone(k) ==
  /\ pending[k].handler = "rerun"
  /\ ResultsSet(RunAll(pending[k].files, 1,
                       [ pending[k].config EXCEPT !.glossary = pending[k].glossary ],
                       rng.seed, rng.drawn, clock),
                [ pending[k].config EXCEPT !.glossary = pending[k].glossary ])
  /\ pending' = Settled(k)
  /\ UNCHANGED <<file, config, edited, fileName, detected, reader, promise,
                 files, glossary>>

AppInit ==
  /\ file = NoFile
  /\ config = DEFAULT_CONFIG
  /\ result = <<>>
  /\ history = <<>>
  /\ clock = 0
  /\ rng = [ seed |-> 0, drawn |-> 0 ]
  /\ edited = FALSE
  /\ NoDetection
  /\ NoParsing
  /\ NoSession

AppNext ==
  \/ FileChosen
  \/ GlossaryTried
  \/ OnLoad
  \/ OnError
  \/ Uploaded
  \/ ClearAllFiles
  \/ GlossaryChosen
  \/ \E k \in DOMAIN pending : GlossaryLoaded(k)
  \/ RerunClicked
  \/ \E k \in DOMAIN pending : RerunDone(k)

SpecApp == AppInit /\ [][AppNext]_vars

(***************************************************************************)
(* Properties of the analyzer.  history records every analysis made, with  *)
(* the configuration it ran under; file is the file that was analysed.     *)
(***************************************************************************)
\* issue.type of the issues that analysis r reports for unit u, in order
TypesFor(r, u) ==
  LET Of(i) == i.unitId = u.id
      own == SelectSeq(r.issues, Of)
  IN [ i \in DOMAIN own |-> own[i].type ]

\* analysis r reports an issue of type t for unit u
Emits(r, u, t) == t \in Range(TypesFor(r, u))

\* the issues without their identifiers
StripId(issues) == [ i \in DOMAIN issues |-> [ issues[i] EXCEPT !.id = <<>> ] ]

\* the number of issues of type t
CountOf(issues, t) == Cardinality({ i \in DOMAIN issues : issues[i].type = t })

\* byType[t], read as 0 when the key is absent
ByType(stats, t) == IF t \in DOMAIN stats.byType THEN stats.byType[t] ELSE 0

RECURSIVE SumByType(_, _)
\* the sum of the per-type counts over the given keys
SumByType(byType, keys) ==
  IF keys = {} THEN 0
  ELSE LET t == CHOOSE x \in keys : TRUE
       IN byType[t] + SumByType(byType, keys \ {t})

\* C1: every analysis has stats.total = the number of issues,
\* errors + warnings + info = total, and for every issue type t a per-type
\* count byType[t] (0 when absent) equal to the number of issues of type t,
\* so that the per-type counts sum to total.
C1_StatsClosure ==
  \A k \in DOMAIN history :
    LET r == history[k].result IN
    /\ r.stats.total = Len(r.issues)
    /\ r.stats.errors + r.stats.warnings + r.stats.info = r.stats.total
    /\ \A t \in IssueTypes \cup DOMAIN r.stats.byType :
         ByType(r.stats, t) = CountOf(r.issues, t)
    /\ SumByType(r.stats.byType, DOMAIN r.stats.byType) = r.stats.total

\* an analysis with issues of all three severities, two of them of one type
C1_Witness ==
  \E k \in DOMAIN history :
    LET r == history[k].result IN
    /\ r.stats.errors > 0 /\ r.stats.warnings > 0 /\ r.stats.info > 0
    /\ \E t \in DOMAIN r.stats.byType : r.stats.byType[t] >= 2

\* C2: every issue of an analysis refers to a unit of the analysed file: some
\* unit u has u.id = unitId and u.index = index, and the issue's source,
\* target and key are those of u.
C2_UnitIntegrity ==
  \A k \in DOMAIN history :
    \A i \in DOMAIN history[k].result.issues :
      LET issue == history[k].result.issues[i] IN
      \E n \in DOMAIN file.units :
        LET u == file.units[n] IN
        /\ u.id = issue.unitId
        /\ issue.index = <<u.index>>
        /\ issue.source = u.source
        /\ issue.target = u.target
        /\ issue.key = u.key

\* an analysis that reports an issue for the second unit of a file
C2_Witness ==
  \E k \in DOMAIN history :
    \E i \in DOMAIN history[k].result.issues :
      /\ Len(file.units) >= 2
      /\ history[k].result.issues[i].unitId = file.units[2].id
      /\ history[k].result.issues[i].index = <<2>>

\* the rank of a rule tag in the canonical rule order
Rank(t) == CHOOSE n \in DOMAIN Checks : Checks[n] = t

\* the position in f.units of the unit an issue refers to
UnitPosition(f, issue) == CHOOSE n \in DOMAIN f.units : f.units[n].id = issue.unitId

\* lexicographic order on pairs of numbers
LexLess(a, b) == a[1] < b[1] \/ (a[1] = b[1] /\ a[2] < b[2])

\* C3: in the issues of an analysis the pairs (position of the issue's unit,
\* rank of the issue's type in the canonical rule order) are strictly
\* increasing: issues come in unit order, then rule order, and no rule
\* contributes twice for one unit.
C3_IssueOrder ==
  \A k \in DOMAIN history :
    LET issues == history[k].result.issues IN
    /\ \A i \in DOMAIN issues : issues[i].type \in Range(Checks)
    /\ \A i \in 1..(Len(issues) - 1) :
         LexLess(<<UnitPosition(file, issues[i]), Rank(issues[i].type)>>,
                 <<UnitPosition(file, issues[i + 1]), Rank(issues[i + 1].type)>>)

\* an analysis with two issues for the first unit followed by one for the
\* second whose rule ranks lower than the last rule of the first
C3_Witness ==
  \E k \in DOMAIN history :
    LET issues == history[k].result.issues IN
    \E i \in 2..(Len(issues) - 1) :
      /\ UnitPosition(file, issues[i - 1]) = 1
      /\ UnitPosition(file, issues[i]) = 1
      /\ UnitPosition(file, issues[i + 1]) = 2
      /\ Rank(issues[i + 1].type) < Rank(issues[i].type)

\* the issues whose type is not t, in their order
Without(issues, t) == LET Kept(i) == i.type # t IN SelectSeq(issues, Kept)

\* C4: when a second analysis runs under the configuration of the first
\* changed only by rules[t] = false, its issues are, identifiers aside,
\* the issues of the first with those of type t removed and the others kept
\* in their order.
C4_RuleIndependence ==
  \A t \in IssueTypes :
    ( /\ Len(history) = 2
      /\ history[2].config = WithRule(history[1].config, t, FALSE) )
    => StripId(history[2].result.issues)
         = StripId(Without(history[1].result.issues, t))

\* a re-run with one rule switched off that drops issues of that rule and
\* keeps others, under fresh identifiers
C4_Witness ==
  \E t \in IssueTypes :
    /\ Len(history) = 2
    /\ history[1].config.rules[t]
    /\ history[2].config = WithRule(history[1].config, t, FALSE)
    /\ CountOf(history[1].result.issues, t) > 0
    /\ history[2].result.issues # <<>>
    /\ history[2].result.issues[1].id # history[1].result.issues[1].id

\* the fields of an issue that identify what was found
Finding(issue) == <<issue.index, issue.type, issue.severity, issue.message>>

\* C5: two analyses of the same file under the same configuration report
\* issue lists of equal length whose (unit index, type, severity, message)
\* tuples coincide position by position; the issues differ in their
\* identifiers at most, the results in identifiers and completion time.
C5_Determinism ==
  \A j, k \in DOMAIN history :
    history[j].config = history[k].config =>
      LET a == history[j].result
          b == history[k].result
      IN
      /\ Len(a.issues) = Len(b.issues)
      /\ \A i \in DOMAIN a.issues : Finding(a.issues[i]) = Finding(b.issues[i])
      /\ StripId(a.issues) = StripId(b.issues)
      /\ [ a EXCEPT !.issues = <<>>, !.completedAt = 0 ]
           = [ b EXCEPT !.issues = <<>>, !.completedAt = 0 ]

\* two analyses of one file under one configuration whose issues carry
\* different identifiers and whose completion times differ
C5_Witness ==
  /\ Len(history) >= 2
  /\ history[1].config = history[2].config
  /\ history[1].result.issues # <<>>
  /\ history[1].result.issues[1].id # history[2].result.issues[1].id
  /\ history[1].result.completedAt # history[2].result.completedAt

\* the merged flag of rule t: config.rules[t] when the configuration
\* supplies it, the default otherwise (FALSE for a tag that neither has)
MergedFlag(cfg, t) ==
  IF t \in DOMAIN cfg.rules THEN cfg.rules[t]
  ELSE IF t \in DOMAIN DEFAULT_CONFIG.rules THEN DEFAULT_CONFIG.rules[t]
  ELSE FALSE

\* C6: an issue of type t is reported only if t is one of the 21 implemented
\* rules and its merged flag is true; no issue of type inconsistent_case or
\* potentially_incorrect_translation is ever reported, whatever their flags.
C6_OnlyEnabledRules ==
  \A k \in DOMAIN history :
    \A i \in DOMAIN history[k].result.issues :
      LET t == history[k].result.issues[i].type IN
      /\ t \in Range(Checks)
      /\ MergedFlag(history[k].config, t)
      /\ t \notin {"inconsistent_case", "potentially_incorrect_translation"}

\* an analysis under a partial rules map that sets both unimplemented rules
\* to true and one implemented rule to false: a rule absent from the map
\* reports, the rule set to false would have reported and does not
C6_Witness ==
  \E k \in DOMAIN history :
    LET c == history[k].config
        r == history[k].result
    IN
    /\ "inconsistent_case" \in DOMAIN c.rules /\ c.rules["inconsistent_case"]
    /\ "potentially_incorrect_translation" \in DOMAIN c.rules
    /\ c.rules["potentially_incorrect_translation"]
    /\ \E i \in DOMAIN r.issues : r.issues[i].type \notin DOMAIN c.rules
    /\ \E t \in Range(Checks) :
         /\ t \in DOMAIN c.rules /\ ~c.rules[t]
         /\ \E n \in DOMAIN file.units :
              RunCheck(t, file.units[n], file.units, c, <<>>) # <<>>
         /\ CountOf(r.issues, t) = 0

\* a configuration the contract calls valid: maxLengthRatio absent or within
\* [1.0, 3.0], and no rule tag that is not an IssueType
ValidConfig(cfg) ==
  /\ cfg.maxLengthRatio = <<>> \/ cfg.maxLengthRatio[1] \in 10..30
  /\ DOMAIN cfg.rules \subseteq IssueTypes

\* C7: a configuration with a maxLengthRatio outside [1.0, 3.0] or with an
\* unknown rule tag is reported as an error and yields no QAResult: every
\* analysis on record ran under a valid configuration.
C7_InvalidConfigRejected ==
  \A k \in DOMAIN history : ValidConfig(history[k].config)

\* C8: for every analysed unit, missing_translation is reported exactly when
\* the target is the empty string and empty_translation exactly when the
\* target is non-empty and white space only; never both for one unit.
C8_MissingXorEmpty ==
  \A k \in DOMAIN history :
    \A n \in DOMAIN file.units :
      LET u == file.units[n]
          r == history[k].result
      IN
      /\ Emits(r, u, "missing_translation") <=> u.target = <<>>
      /\ Emits(r, u, "empty_translation")
           <=> (u.target # <<>> /\ Trim(u.target) = <<>>)
      /\ ~(Emits(r, u, "missing_translation") /\ Emits(r, u, "empty_translation"))

\* the corpus of two units with source 'OK' and targets 'OK' and 'Oui'
Corpus == File(<< <<TxtOK, TxtOK>>, <<TxtOK, TxtOui>> >>)

\* C9 as stated: analysed under the default configuration, unit 1 of the
\* corpus reports target_same_as_source (info) and inconsistent_target, and
\* unit 2 reports inconsistent_target.
C9_CorpusAsStated ==
  \A k \in DOMAIN history :
    (file = Corpus /\ history[k].config = DEFAULT_CONFIG) =>
      LET r == history[k].result IN
      /\ \E i \in DOMAIN r.issues :
           /\ r.issues[i].unitId = file.units[1].id
           /\ r.issues[i].type = "target_same_as_source"
           /\ r.issues[i].severity = "info"
      /\ Emits(r, file.units[1], "inconsistent_target")
      /\ Emits(r, file.units[2], "inconsistent_target")

\* C9: analysed under the default configuration, unit 1 of the corpus
\* reports inconsistent_target and nothing else (its source is shorter than
\* 3 characters, so target_same_as_source skips it), and unit 2 reports
\* alphanumeric_mismatch and inconsistent_target.
C9_Corpus ==
  \A k \in DOMAIN history :
    (file = Corpus /\ history[k].config = DEFAULT_CONFIG) =>
      LET r == history[k].result IN
      /\ TypesFor(r, file.units[1]) = <<"inconsistent_target">>
      /\ TypesFor(r, file.units[2]) = <<"alphanumeric_mismatch", "inconsistent_target">>

\* the corpus has been analysed under the default configuration
C9_Witness ==
  /\ file = Corpus
  /\ history # <<>>
  /\ history[1].config = DEFAULT_CONFIG
  /\ Len(history[1].result.issues) = 3

\* the extension table as documented: .yaml and .yml both name yaml
DocumentedExtensions ==
  << << <<".","j","s","o","n">>, "json" >>,
     << <<".","x","l","i","f","f">>, "xliff" >>,
     << <<".","x","l","f">>, "xliff" >>,
     << <<".","s","d","l","x","l","i","f","f">>, "sdlxliff" >>,
     << <<".","x","m","l">>, "xml" >>,
     << <<".","p","o">>, "po" >>,
     << <<".","p","o","t">>, "pot" >>,
     << <<".","s","t","r","i","n","g","s">>, "strings" >>,
     << <<".","y","a","m","l">>, "yaml" >>,
     << <<".","y","m","l">>, "yaml" >>,
     << <<".","p","r","o","p","e","r","t","i","e","s">>, "properties" >>,
     << <<".","r","e","s","x">>, "resx" >>,
     << <<".","c","s","v">>, "csv" >>,
     << <<".","t","s","v">>, "tsv" >>,
     << <<".","t","m","x">>, "tmx" >> >>

\* the documented tag of an extension: <<tag>>, or <<>> (null) if it has none
DocumentedTag(ext) ==
  LET Is(e) == e[1] = ext
      rows == SelectSeq(DocumentedExtensions, Is)
  IN IF rows # <<>> THEN << rows[1][2] >> ELSE <<>>

\* the lowercased final extension of a name, dot included; <<>> if no dot
FinalExtension(name) ==
  IF \E i \in DOMAIN name : name[i] = "."
  THEN ToLowerCase(Slice(name, LastIndexOfDot(name) + 1, Len(name)))
  ELSE <<>>

\* C10: the detector returns the documented tag of the lowercased final
\* extension of the name, and null for every other name, names without a
\* dot included.
C10_DetectTable ==
  detected # <<"pending">> => detected = DocumentedTag(FinalExtension(fileName))

(***************************************************************************)
(* Properties of the decoders.  promise holds the calls of resolve and     *)
(* reject that parseFile made for the file named fileName; detected is     *)
(* what detectFileType returned for that name.                             *)
(***************************************************************************)
\* C11: whenever parseFile resolves, the type field of the TranslationFile
\* it delivers equals the tag that detectFileType returned for the file's
\* name, for every recognised extension in either letter case.
C11_TypeIsDetectedTag ==
  \A i \in DOMAIN promise :
    promise[i].call = "resolve" => << promise[i].value.type >> = detected

\* C12: every TranslationUnit of a file that a decoder returns has a
\* non-empty key, whatever the content was.
C12_KeysNonEmpty ==
  \A i \in DOMAIN promise :
    promise[i].call = "resolve" =>
      \A n \in DOMAIN promise[i].value.units :
        promise[i].value.units[n].key # <<>>

\* the tags parseFile has a decoder for
DecodableTags ==
  { SUPPORTED_FILE_EXTENSIONS[i][2] : i \in DOMAIN SUPPORTED_FILE_EXTENSIONS }

\* a TranslationFile with every field of the type, named after the file read
CompleteFile(f) ==
  /\ DOMAIN f = { "id", "name", "type", "sourceLanguage", "targetLanguage",
                  "units", "uploadedAt", "size" }
  /\ f.name = fileName
  /\ f.type \in DecodableTags
  /\ f.size = Len(TextOf(reader.content))
  /\ \A n \in DOMAIN f.units :
       /\ f.units[n].index = n
       /\ f.units[n].filePath = fileName

\* the decoder chosen for the name fails on the content: the content is no
\* JSON (or is null) for the JSON decoder, no XML for a DOM decoder, or an
\* XLIFF document without a file element
DecoderFails ==
  \/ /\ detected = <<"json">>
     /\ reader.content.kind # "json" \/ reader.content.doc = JNull
  \/ /\ detected \in { <<"xliff">>, <<"sdlxliff">>, <<"xml">>, <<"resx">>, <<"tmx">> }
     /\ reader.content.kind # "xml"
  \/ /\ detected \in { <<"xliff">>, <<"sdlxliff">> }
     /\ reader.content.kind = "xml"
     /\ getElementsByTagName(parseFromString(reader.content), <<"f","i","l","e">>) = <<>>

\* C13: parseFile settles exactly once, either with a complete
\* TranslationFile or with a FileParserError whose fileName is the name of
\* the file read; an unsupported extension, a read failure (the reader's
\* error event, after which nothing was detected) and a decoder failure
\* reject, and then no TranslationFile is delivered.
C13_SettlesOnce ==
  /\ reader.state = "reading" => promise = <<>>
  /\ reader.state = "done" =>
       /\ Len(promise) = 1
       /\ \/ /\ promise[1].call = "resolve"
             /\ CompleteFile(promise[1].value)
          \/ /\ promise[1].call = "reject"
             /\ promise[1].value.name = "FileParserError"
             /\ promise[1].value.fileName = fileName
             /\ history = <<>> /\ file = NoFile
       /\ detected = <<"pending">> => promise[1].call = "reject"
       /\ (detected = <<>> \/ (detected # <<"pending">> /\ detected[1] \notin DecodableTags))
            => promise[1].call = "reject"
       /\ DecoderFails => promise[1].call = "reject"
  /\ history # <<>> => promise[1].call = "resolve" /\ file = promise[1].value

\* the JSON decoder failed on the content and parseFile rejected
C13_Witness ==
  /\ reader.state = "done"
  /\ DecoderFails
  /\ promise[1].call = "reject"
  /\ promise[1].value.message = <<"Invalid JSON format">>

RECURSIVE IsMapping(_)
\* a nested mapping: an object whose members have distinct keys and are
\* strings or nested mappings
IsMapping(value) ==
  /\ value.t = "obj"
  /\ \A i, j \in DOMAIN value.v : value.v[i][1] = value.v[j][1] => i = j
  /\ \A i \in DOMAIN value.v :
       value.v[i][2].t = "str" \/ IsMapping(value.v[i][2])

RECURSIVE Leaves(_, _)
\* the string leaves below the members, depth first in document order, each
\* as <<path from the root, leaf>>
Leaves(members, path) ==
  IF members = <<>> THEN <<>>
  ELSE (IF Head(members)[2].t = "str"
        THEN << << Append(path, Head(members)[1]), Head(members)[2].v >> >>
        ELSE Leaves(Head(members)[2].v, Append(path, Head(members)[1])))
       \o Leaves(Tail(members), path)

\* the units are those of the leaves: key the dot-joined path, source the
\* leaf, target empty, index the position
UnitsOfLeaves(units, leaves) ==
  /\ Len(units) = Len(leaves)
  /\ \A n \in DOMAIN leaves :
       /\ units[n].key = Join(leaves[n][1], <<".">>)
       /\ units[n].source = leaves[n][2]
       /\ units[n].target = <<>>
       /\ units[n].index = n

\* C14: for a JSON document that is a nested mapping of keys to strings or
\* further mappings, the decoder emits one unit per string leaf, depth
\* first in document order, with key the dot-joined path from the unwrapped
\* root, source the leaf, target empty and index the 1-based position; the
\* document {"a":{"b":"Hello {name}!","c":"Save"}} gives the keys a.b and
\* a.c, and each of the two units yields missing_translation under the
\* default configuration.
C14_JsonLeaves ==
  (/\ detected = <<"json">>
   /\ reader.state = "done"
   /\ reader.content.kind = "json"
   /\ IsMapping(reader.content.doc)
   /\ IsMapping(UnwrappedRoot(reader.content.doc)))
  =>
  /\ promise[1].call = "resolve"
  /\ UnitsOfLeaves(promise[1].value.units,
                   Leaves(UnwrappedRoot(reader.content.doc).v, <<>>))
  /\ (reader.content.doc = JsonNested /\ history # <<>>) =>
       /\ Len(file.units) = 2
       /\ file.units[1].key = <<"a",".","b">> /\ file.units[2].key = <<"a",".","c">>
       /\ \A n \in 1..2 :
            Emits(history[1].result, file.units[n], "missing_translation")

RECURSIVE ArraysEmptied(_)
\* the JSON value with every array in it emptied
ArraysEmptied(value) ==
  CASE value.t = "arr" -> JArr(<<>>)
    [] value.t = "obj" ->
         JObj([ i \in DOMAIN value.v |->
                  << value.v[i][1], ArraysEmptied(value.v[i][2]) >> ])
    [] OTHER -> value

\* C15: the JSON decoder ignores arrays: the units of a JSON document are
\* those of the same document with every array emptied, so that a value
\* that is an array contributes no unit, at any depth and whatever its
\* elements.
C15_ArraysIgnored ==
  (/\ reader.state = "done"
   /\ detected = <<"json">>
   /\ reader.content.kind = "json"
   /\ promise[1].call = "resolve")
  =>
  promise[1].value.units =
    extractTranslations(UnwrappedRoot(ArraysEmptied(reader.content.doc)),
                        <<>>, <<>>, << fileName, 0, 0, 0 >>)

(***************************************************************************)
(* Properties of single rules, over every analysis made.                   *)
(***************************************************************************)
\* the issue of type t that analysis r reports for unit u
IssueOf(r, u, t) ==
  LET Of(i) == i.unitId = u.id /\ i.type = t
  IN SelectSeq(r.issues, Of)[1]

\* C16: duplicate_translation is emitted for a unit u exactly when the file
\* holds another unit whose source is identical to u's non-empty source and
\* whose target is identical to u's target.
C16_DuplicateTranslation ==
  \A k \in DOMAIN history : \A n \in DOMAIN file.units :
    Emits(history[k].result, file.units[n], "duplicate_translation")
    <=> \E m \in DOMAIN file.units :
          /\ m # n
          /\ file.units[n].source # <<>>
          /\ file.units[m].source = file.units[n].source
          /\ file.units[m].target = file.units[n].target

\* unit m of the file has the target of unit n and another source
SameTargetOtherSource(n, m) ==
  /\ m # n
  /\ file.units[m].target = file.units[n].target
  /\ file.units[m].source # file.units[n].source

\* C17: inconsistent_source is emitted for a unit, untranslated units
\* included, exactly when the file holds another unit with the same target
\* and a different source, and then that other unit is flagged too.
C17_InconsistentSource ==
  \A k \in DOMAIN history : \A n \in DOMAIN file.units :
    /\ Emits(history[k].result, file.units[n], "inconsistent_source")
       <=> \E m \in DOMAIN file.units : SameTargetOtherSource(n, m)
    /\ \A m \in DOMAIN file.units :
         SameTargetOtherSource(n, m)
         /\ Emits(history[k].result, file.units[n], "inconsistent_source")
         => Emits(history[k].result, file.units[m], "inconsistent_source")

\* two untranslated units with different sources, both flagged
C17_Witness ==
  /\ history # <<>>
  /\ \E n, m \in DOMAIN file.units :
       /\ SameTargetOtherSource(n, m)
       /\ file.units[n].target = <<>>
       /\ Emits(history[1].result, file.units[n], "inconsistent_source")
       /\ Emits(history[1].result, file.units[m], "inconsistent_source")

\* how many of the runs q are the run a
TimesIn(q, a) == Cardinality({ i \in DOMAIN q : q[i] = a })

\* the runs of letters and digits of s, as a multiset
AlphaRuns(s) ==
  LET runs == MatchAll(AlphaPattern, s)
  IN [ a \in Range(runs) |-> TimesIn(runs, a) ]

\* C18: alphanumeric_mismatch is emitted for a unit exactly when the multiset
\* of [A-Za-z0-9]+ runs of its source differs from that of its target, also
\* when a run only occurs a different number of times on the two sides.
C18_AlphanumericMultisets ==
  \A k \in DOMAIN history : \A n \in DOMAIN file.units :
    Emits(history[k].result, file.units[n], "alphanumeric_mismatch")
    <=> AlphaRuns(file.units[n].source) # AlphaRuns(file.units[n].target)

\* the target has a CRLF sequence and the source has none
CrLfOnlyInTarget(u) == Test(CrLfPattern, u.target) /\ ~Test(CrLfPattern, u.source)

\* s has two or more white-space characters in a row between its CRLF
\* line endings
SpacesBesideLineEndings(s) ==
  \E part \in Range(Split(CrLfPattern, s)) : Test(MultiSpacePattern, part)

\* C19: a unit whose target has a CRLF sequence and whose source has none
\* gets formatting_issues with the line-endings message; the message on
\* multiple consecutive spaces is given only when the target has a run of two
\* or more white-space characters other than a line ending and the source
\* has no such run.
C19_LineEndingsMessage ==
  \A k \in DOMAIN history : \A n \in DOMAIN file.units :
    LET u == file.units[n]
        r == history[k].result
    IN /\ CrLfOnlyInTarget(u)
          => /\ Emits(r, u, "formatting_issues")
             /\ IssueOf(r, u, "formatting_issues").message
                  = <<"Inconsistent line endings (CRLF vs LF)">>
       /\ ( /\ Emits(r, u, "formatting_issues")
            /\ IssueOf(r, u, "formatting_issues").message
                 = <<"Multiple consecutive spaces in translation">> )
          => /\ SpacesBesideLineEndings(u.target)
             /\ ~SpacesBesideLineEndings(u.source)

\* s starts with a white-space character
LeadingSpace(s) == s # <<>> /\ s[1] \in WhiteSpace

\* s ends with a white-space character
TrailingSpace(s) == s # <<>> /\ s[Len(s)] \in WhiteSpace

\* C20: leading_trailing_spaces is emitted exactly when source and target
\* disagree on leading or on trailing white space; the suggestion of every
\* such issue starts with white space iff the source does and ends with
\* white space iff the source does; 'Save file' translated as
\* 'Sauver le fichier ' is flagged for trailing spaces and gets no
\* inconsistent_punctuation.
C20_EdgeSpacesRestored ==
  \A k \in DOMAIN history : \A n \in DOMAIN file.units :
    LET u == file.units[n]
        r == history[k].result
    IN /\ Emits(r, u, "leading_trailing_spaces")
          <=> \/ LeadingSpace(u.source) # LeadingSpace(u.target)
              \/ TrailingSpace(u.source) # TrailingSpace(u.target)
       /\ Emits(r, u, "leading_trailing_spaces")
          => LET issue == IssueOf(r, u, "leading_trailing_spaces")
             IN /\ Len(issue.suggestion) = 1
                /\ LeadingSpace(issue.suggestion[1]) <=> LeadingSpace(u.source)
                /\ TrailingSpace(issue.suggestion[1]) <=> TrailingSpace(u.source)
       /\ (u.source = TxtSaveFile /\ u.target = TxtSauverTrailing)
          => /\ Emits(r, u, "leading_trailing_spaces")
             /\ IssueOf(r, u, "leading_trailing_spaces").message
                  = <<"Inconsistent ">> \o <<"trailing spaces">>
             /\ ~Emits(r, u, "inconsistent_punctuation")

\* the six families of placeholders, in the order they are compared:
\* printf, double brace, shell, colon symbol, Python, single brace
PlaceholderFamilies ==
  << PlaceholderPatterns[1],
     << Lit("{"), Lit("{"), Cls(WhiteSpace, 0, -1), Cls(WordChar, 1, -1),
        Cls(WhiteSpace, 0, -1), Lit("}"), Lit("}") >>,
     PlaceholderPatterns[3], PlaceholderPatterns[4], PlaceholderPatterns[5],
     PlaceholderPatterns[6] >>

\* family f has other numbers of occurrences in the source and target of u
FamilyDiffers(f, u) ==
  Len(MatchAll(PlaceholderFamilies[f], u.source))
    # Len(MatchAll(PlaceholderFamilies[f], u.target))

\* the message on the counts of family f in u
CountsMessage(f, u) ==
  <<"Placeholder count mismatch: expected ">>
    \o NumToString(Len(MatchAll(PlaceholderFamilies[f], u.source)))
    \o <<", found ">>
    \o NumToString(Len(MatchAll(PlaceholderFamilies[f], u.target)))

\* C21: inconsistent_placeholders is emitted for a unit exactly when one of
\* the six placeholder families, each counted on its own, occurs another
\* number of times in the source than in the target; the message gives the
\* counts of the first such family (2 against 1 for the printf example), and
\* a target that writes a double-brace placeholder with single braces is
\* flagged.
C21_PlaceholderFamilies ==
  \A k \in DOMAIN history : \A n \in DOMAIN file.units :
    LET u == file.units[n]
        r == history[k].result
        differing == { f \in DOMAIN PlaceholderFamilies : FamilyDiffers(f, u) }
    IN /\ Emits(r, u, "inconsistent_placeholders") <=> differing # {}
       /\ Emits(r, u, "inconsistent_placeholders") /\ differing # {}
          => IssueOf(r, u, "inconsistent_placeholders").message
               = CountsMessage(CHOOSE f \in differing :
                                 \A g \in differing : f <= g, u)
       /\ u.source = TxtHello /\ u.target = TxtBonjour
          => /\ Emits(r, u, "inconsistent_placeholders")
             /\ IssueOf(r, u, "inconsistent_placeholders").message
                  = <<"Placeholder count mismatch: expected ", "2",
                      ", found ", "1">>
       /\ u.source = TxtDoubleBrace /\ u.target = TxtSingleBrace
          => Emits(r, u, "inconsistent_placeholders")

\* the name of a tag token: its letters and digits after '<' or '</', in
\* lower case
TagName(tag) ==
  LET from == IF StartsWith(tag, <<"<", "/">>) THEN 3 ELSE 2
      to == CHOOSE j \in from..(Len(tag) + 1) :
              /\ \A h \in from..(j - 1) : tag[h] \in Letter \cup Digit
              /\ j = Len(tag) + 1 \/ tag[j] \notin Letter \cup Digit
  IN ToLowerCase(Slice(tag, from, to - 1))

RECURSIVE StackCheck(_, _)
\* the stack check over the tag tokens: the first closing tag that does not
\* close the innermost open tag, else the tags left open, else nothing
StackCheck(tags, open) ==
  IF tags = <<>>
  THEN IF open = <<>> THEN <<"nested">> ELSE <<"unclosed", open>>
  ELSE LET tag == Head(tags) IN
    IF StartsWith(tag, <<"<", "/">>)
    THEN IF open = <<>> \/ open[Len(open)] # TagName(tag)
         THEN <<"unmatched", tag>>
         ELSE StackCheck(Tail(tags), Slice(open, 1, Len(open) - 1))
    ELSE IF EndsWith(tag, <<"/", ">">>) \/ TagName(tag) \in VoidElements
    THEN StackCheck(Tail(tags), open)
    ELSE StackCheck(Tail(tags), Append(open, TagName(tag)))

\* C22: invalid_html_tags is a stack check over the tag tokens of the target:
\* the first closing tag whose name is not the innermost open one is reported
\* as unmatched, else the tags left open are reported as unclosed, and a
\* target with properly nested tags (void and self-closing ones aside) gets
\* no issue; 'Cliquez <b>ici' is reported as unclosed b.
C22_HtmlStackCheck ==
  \A k \in DOMAIN history : \A n \in DOMAIN file.units :
    LET u == file.units[n]
        r == history[k].result
        found == StackCheck(MatchAll(HtmlTagPattern, u.target), <<>>)
    IN /\ Emits(r, u, "invalid_html_tags") <=> found[1] # "nested"
       /\ Emits(r, u, "invalid_html_tags") /\ found[1] = "unmatched"
          => IssueOf(r, u, "invalid_html_tags").message
               = <<"Unmatched closing tag: ">> \o found[2]
       /\ Emits(r, u, "invalid_html_tags") /\ found[1] = "unclosed"
          => IssueOf(r, u, "invalid_html_tags").message
               = <<"Unclosed HTML tags: ">> \o Join(found[2], <<", ">>)
       /\ u.target = TxtCliquezOpen
          => /\ Emits(r, u, "invalid_html_tags")
             /\ IssueOf(r, u, "invalid_html_tags").message
                  = <<"Unclosed HTML tags: ", "b">>

\* the term occurs in the text as a whole word, whatever the letter case:
\* no letter, digit or underscore stands next to the occurrence
OccursAsWord(term, text) ==
  LET t == ToLowerCase(term)
      s == ToLowerCase(text)
  IN \E i \in 1..Len(s) :
       /\ IsPrefixAt(t, s, i)
       /\ i = 1 \/ s[i - 1] \notin WordChar
       /\ i + Len(t) > Len(s) \/ s[i + Len(t)] \notin WordChar

\* the terms of the glossary that the unit violates, in glossary order
ViolatedTerms(termList, u) ==
  LET Violates(term) ==
        /\ term.source # <<>> /\ term.target # <<>>
        /\ OccursAsWord(term.source, u.source)
        /\ ~OccursAsWord(term.target, u.target)
  IN SelectSeq(termList, Violates)

\* C23: key_term_mismatch is emitted for a unit exactly when a glossary term
\* with non-empty source and target has its source in the unit's source as a
\* whole word, case-insensitively, and its target not so in the unit's
\* target; one warning carries the targets of all such terms, joined in
\* glossary order, as its suggestion; without a glossary the rule is silent;
\* with (file, fichier), 'Open file' / 'Ouvrir document' gives the
\* suggestion 'fichier'.
C23_KeyTerms ==
  \A k \in DOMAIN history : \A n \in DOMAIN file.units :
    LET u == file.units[n]
        r == history[k].result
        terms == ViolatedTerms(history[k].config.glossary, u)
    IN /\ Emits(r, u, "key_term_mismatch") <=> terms # <<>>
       /\ Emits(r, u, "key_term_mismatch")
          => /\ CountOf(SelectSeq(r.issues, LAMBDA i : i.unitId = u.id),
                        "key_term_mismatch") = 1
             /\ IssueOf(r, u, "key_term_mismatch").severity = "warning"
             /\ IssueOf(r, u, "key_term_mismatch").suggestion
                  = << Join([i \in DOMAIN terms |-> terms[i].target], <<", ">>) >>
       /\ history[k].config.glossary = <<>> => ~Emits(r, u, "key_term_mismatch")
       /\ ( /\ history[k].config.glossary = Glossary
            /\ u.source = TxtOpenFile /\ u.target = TxtOuvrirDocument )
          => /\ Emits(r, u, "key_term_mismatch")
             /\ IssueOf(r, u, "key_term_mismatch").suggestion = << TxtFichier >>

(***************************************************************************)
(* Properties of the decoders of line-oriented documents.                  *)
(***************************************************************************)
\* the pieces of a field, concatenated
Concatenated(pieces) == Join(pieces, <<>>)

\* the entries with a non-empty msgid
Translatable(entries) ==
  SelectSeq(entries, LAMBDA entry : Concatenated(entry.msgid) # <<>>)

\* the catalogues whose text was read
CataloguesRead == { entries \in PoCatalogues : PoText(entries) = reader.content.doc }

\* the units delivered for the document read
UnitsDelivered == promise[1].value.units

\* C24: a PO/POT catalogue of entries (optional msgctxt, msgid, msgstr, each
\* possibly continued on quoted lines) is decoded into one unit per entry
\* with non-empty msgid, in document order, the last one at end of input;
\* source and target are the entry's concatenated msgid and msgstr, context
\* is the entry's own msgctxt or none, and key is msgctxt U+0004 msgid when
\* there is a context, else msgid.
C24_PoEntries ==
  promise # <<>> /\ promise[1].call = "resolve" /\ fileName \in PoNames
  => \A entries \in CataloguesRead :
       LET expected == Translatable(entries) IN
       /\ Len(UnitsDelivered) = Len(expected)
       /\ \A n \in DOMAIN expected :
            LET unit == UnitsDelivered[n]
                msgid == Concatenated(expected[n].msgid)
                context == IF expected[n].msgctxt = <<>> THEN <<>>
                           ELSE << Concatenated(expected[n].msgctxt[1]) >>
            IN /\ unit.source = msgid
               /\ unit.target = Concatenated(expected[n].msgstr)
               /\ unit.context = context
               /\ unit.key = IF context = <<>> THEN msgid
                             ELSE context[1] \o <<"U+0004">> \o msgid

\* C25: the #. comment lines placed before an entry of a PO/POT catalogue
\* are joined by single spaces into the notes of that entry's unit, and into
\* the notes of no other unit.
C25_PoNotes ==
  promise # <<>> /\ promise[1].call = "resolve" /\ fileName \in PoNames
  => \A entries \in CataloguesRead :
       LET expected == Translatable(entries) IN
       \A n \in DOMAIN expected \cap DOMAIN UnitsDelivered :
         UnitsDelivered[n].notes
           = IF expected[n].notes = <<>> THEN <<>>
             ELSE << Join(expected[n].notes, <<" ">>) >>

\* the rows whose text was read
RowsRead ==
  { fields \in CsvRows : CsvRow(fields, DelimiterOf(fileName)) = reader.content.doc }

\* C26: parseCSVLine splits a single-line CSV/TSV row as an RFC 4180 reader
\* does: a quoted field keeps the delimiters inside it and every doubled
\* quote of a quoted field gives one quote character, so the row written
\* from some fields is split into these fields, which parseCSV delivers as
\* key, source and target.
C26_CsvLineRfc4180 ==
  promise # <<>> /\ promise[1].call = "resolve" /\ fileName \in CsvNames
  => \A fields \in RowsRead :
       /\ parseCSVLine(reader.content.doc, DelimiterOf(fileName)) = fields
       /\ Len(UnitsDelivered) = 1
       /\ UnitsDelivered[1].key = fields[1]
       /\ UnitsDelivered[1].source = fields[2]
       /\ UnitsDelivered[1].target = fields[3]

RECURSIVE YamlLeaves(_, _)
\* the keys with a scalar under the nodes, in document order, each as the
\* path of its enclosing keys with its own key, and its trimmed scalar
YamlLeaves(nodes, path) ==
  IF nodes = <<>> THEN <<>>
  ELSE LET node == Head(nodes) IN
       (IF node.value = <<>> THEN <<>>
        ELSE << [ key |-> Join(Append(path, node.key), <<".">>),
                  source |-> Trim(node.value) ] >>)
       \o YamlLeaves(node.children, Append(path, node.key))
       \o YamlLeaves(Tail(nodes), path)

\* the trees whose text was read
TreesRead ==
  { tree \in YamlTrees :
      \E eol \in LineEndings : YamlText(tree, 0, eol) = reader.content.doc }

\* the key stack when line i of the lines is handled, after the pops
StackAt(lines, i) ==
  PopTo(YamlLines(SubSeq(lines, 1, i - 1), 1,
                  [ keyStack |-> <<>>, units |-> <<>> ],
                  << fileName, 0, 0, 0 >>).keyStack,
        YamlIndent(lines[i]))

\* C27: in a YAML document of nested mappings indented two spaces per level,
\* the key stack holds at most indent/2 keys when a key at that indentation
\* is handled, and every key with a non-empty value gives one unit whose key
\* is the dot-joined path of the enclosing keys and its own and whose source
\* is the trimmed value; a key after a nested mapping, at a shallower
\* indentation, does not carry the keys of the mapping that was left.
C27_YamlKeyStack ==
  promise # <<>> /\ promise[1].call = "resolve" /\ fileName \in YamlNames
  => \A tree \in TreesRead :
       LET expected == YamlLeaves(tree, <<>>)
           lines == SplitLines(reader.content.doc)
       IN /\ \A i \in DOMAIN lines :
               2 * Len(StackAt(lines, i)) <= YamlIndent(lines[i])
          /\ Len(UnitsDelivered) = Len(expected)
          /\ \A n \in DOMAIN expected \cap DOMAIN UnitsDelivered :
               /\ UnitsDelivered[n].key = expected[n].key
               /\ UnitsDelivered[n].source = expected[n].source

(***************************************************************************)
(* Properties of the glossary loaders.  glossary holds the terms loaded.   *)
(***************************************************************************)
\* C28: for a <tu> of a TMX document (any number and order of <tuv>, any
\* language tags in any letter case) from which the glossary loader makes a
\* term, the term has the source and the target of the unit that the bundle
\* decoder makes of the same <tu>.
C28_TmxSameAssignment ==
  ( /\ fileName = <<"a",".","t","m","x">>
    /\ promise # <<>> /\ promise[1].call = "resolve"
    /\ glossary # <<>> )
  => /\ Len(UnitsDelivered) = 1
     /\ glossary[1].source = UnitsDelivered[1].source
     /\ glossary[1].target = UnitsDelivered[1].target

\* the terms of the rows with a non-empty first and second cell
TermsOfRows(rows) ==
  LET Filled(row) == Trim(row[1]) # <<>> /\ Trim(row[2]) # <<>>
      filled == SelectSeq(rows, Filled)
  IN [ i \in DOMAIN filled |->
         << Trim(filled[i][1]), Trim(filled[i][2]) >> ]

\* the loader of the k-th pending handler returns in this step
LoaderReturns(k) ==
  /\ pending[k].handler = "glossary"
  /\ pending' = Settled(k)
  /\ parseGlossaryFile(pending[k].name, pending[k].content)[1] = "return"

\* C29: every term that parseGlossaryFile returns, from a spreadsheet, a TMX
\* document or a CSV/TSV file, has a source and a target that are not empty
\* after trimming; a row without a non-empty first or second cell gives no
\* term, and the terms are in the order of the rows.
C29_GlossaryTermsFilled ==
  [][ \A k \in DOMAIN pending :
        LoaderReturns(k)
        => /\ \A i \in DOMAIN glossary' :
                /\ Trim(glossary'[i].source) # <<>>
                /\ Trim(glossary'[i].target) # <<>>
           /\ \A rows \in GlossaryTables :
                TableFile(pending[k].name, rows) = pending[k].content
                /\ pending[k].name \in TableNames
                => [ i \in DOMAIN glossary' |->
                       << glossary'[i].source, glossary'[i].target >> ]
                   = TermsOfRows(rows) ]_vars

(***************************************************************************)
(* Properties of the application state.                                    *)
(***************************************************************************)
\* C30: under every interleaving of upload, clear all files, load glossary
\* and run or re-run QA, every result held refers by fileId to a file held;
\* so once the files are cleared and no handler is waiting, no result is
\* held.
C30_ResultsOfHeldFiles ==
  /\ \A i \in DOMAIN results : \E j \in DOMAIN files : files[j].id = results[i].fileId
  /\ files = <<>> /\ pending = <<>> => results = <<>>

====
